---- MODULE Spec2Model ----
(***************************************************************************)
(* Model of the wall-climbing spider's velocity controller                 *)
(* (src/controllers.py) and of its walking-instruction planner             *)
(* (src/gwpspider/planning/pathplanner.py).                                *)
(*                                                                         *)
(* Joint vectors are triples of integers.  A division by the loop period   *)
(* is a multiplication by the loop rate (period = 1 / rate), so that the   *)
(* control law stays in the integers.                                      *)
(***************************************************************************)
EXTENDS Integers, Sequences, FiniteSets, TLC

VARIABLES
    qDqDdBuffer,      \* VelocityController.qDqDdBuffer: [qD, qDd], one joint vector per leg
    locker,           \* VelocityController.locker: "free" or the thread that holds it
    bus,              \* per thread, the bus transaction it is inside: "none", "read", "write"
    ctl,              \* frame of the thread running VelocityController.controller
    call,             \* frame of the caller thread (one public method at a time)
    gripCmd,          \* per leg, the last command sent to its gripper over the serial link
    receivedMessage,  \* GripperController.receivedMessage: the last decoded serial line
    stopFlag,         \* the stop flag of the design (no code reads or writes it)
    hist,             \* history of the caller's requests (for stating the properties)
    planner,          \* frame of a run of a function of the path planner (pathplanner.py)
    comm              \* the serial link of GripperController: its lock, its threads, the lines in flight

vars == <<qDqDdBuffer, locker, bus, ctl, call, gripCmd, receivedMessage, stopFlag, hist, planner, comm>>

----------------------------------------------------------------------------
(* Bounds of the model. *)

\* Longest trajectory (in samples) a movement request is given.
MaxLen == 3

\* Longest body path (in steps) the walking instructions are created for.
MaxSteps == 4

----------------------------------------------------------------------------
(* Program constants. *)

NUMBER_OF_LEGS == 5
CONTROLLER_FREQUENCY == 50
NUMBER_OF_MOTORS_IN_LEG == 3
\* moveLegs line 136 reads the time stamps of samples 0 and 1 of trajectories[0].
MinLen == 2
RECEIVED_MESSAGE_LENGTH == 10

LEGS_IDS == 0 .. (NUMBER_OF_LEGS - 1)
Joints == 1 .. NUMBER_OF_MOTORS_IN_LEG

OPEN_COMMAND == "o"
CLOSE_COMMAND == "c"
GRIPPER_OPENED_RESPONSE == "1"
GRIPPER_CLOSED_RESPONSE == "0"
SWITCH_CLOSE_RESPONSE == "0"
INIT_RESPONSE == <<"O", "K">>

\* Gains of the three loops (controller: Kp, Kd; moveLegs: Kp, Kd; movePlatform: Kp, Kd).
Kp == <<5, 15, 15>>
Kd == <<1, 1, 1>>

----------------------------------------------------------------------------
(* Joint vectors. *)

Zero3 == [j \in Joints |-> 0]

VSub(a, b) == [j \in Joints |-> a[j] - b[j]]

VScale(k, a) == [j \in Joints |-> k * a[j]]

VAdd(a, b) == [j \in Joints |-> a[j] + b[j]]

Range(s) == {s[k] : k \in DOMAIN s}

----------------------------------------------------------------------------
(* Inputs. *)

\* What a batch read of the bus may return for a leg.
JointReadings == {Zero3, <<1, 0, -1>>}

\* A batch read returns the same kind of reading for every leg it is asked for.
Postures == {[l \in LEGS_IDS |-> r] : r \in JointReadings}

\* Direction in joint space along which the requested trajectories run.
TrajectoryDirection == <<1, 2, -1>>

\* The joint references getQdQddLegFF computes for a trajectory of len samples
\* that starts at joint vector s: sample k is [qD, qDd].
JointTrajectory(len, s) ==
    [k \in 1 .. len |->
        [qD  |-> VAdd(s, VScale(k - 1, TrajectoryDirection)),
         qDd |-> TrajectoryDirection]]

----------------------------------------------------------------------------
(* The control loop: VelocityController.controller. *)

ZeroLegs == [l \in LEGS_IDS |-> Zero3]

\* Line 49: errors = qD - qA, for every leg.
ControllerErrors(qD, qA) == [l \in LEGS_IDS |-> VSub(qD[l], qA[l])]

\* A control law whose derivative term forgets the error of the tick before.
ControllerCommandNoLastErrors(errors, lastErrors, qDd) ==
    [l \in LEGS_IDS |->
        [j \in Joints |->
            Kp[j] * errors[l][j] + Kd[j] * (errors[l][j] * CONTROLLER_FREQUENCY) + qDd[l][j]]]

\* Lines 50-51: dE = (errors - lastErrors) / period; qCds = Kp * errors + Kd * dE + qDd.
ControllerCommand(errors, lastErrors, qDd) ==
    [l \in LEGS_IDS |->
        [j \in Joints |->
            Kp[j] * errors[l][j]
            + Kd[j] * ((errors[l][j] - lastErrors[l][j]) * CONTROLLER_FREQUENCY)
            + qDd[l][j]]]

\* The frame of the control thread before initControllerThread starts it
\* (lines 38-41: lastErrors = zeros).  prevErrors records the errors of the
\* tick before the current one, wrote the result of the last batch write.
ControllerFrame ==
    [pc |-> "off", qD |-> ZeroLegs, qDd |-> ZeroLegs, qA |-> ZeroLegs,
     lastErrors |-> ZeroLegs, qCds |-> ZeroLegs, prevErrors |-> ZeroLegs,
     wrote |-> "none"]

\* initControllerThread: start the thread that runs controller().
initControllerThread ==
    /\ ctl.pc = "off"
    /\ ctl' = [ctl EXCEPT !.pc = "loop"]
    /\ UNCHANGED <<qDqDdBuffer, locker, bus, call, gripCmd, receivedMessage, stopFlag, hist, planner, comm>>

\* Line 44: the condition of the loop (while True): no flag is read.
ControllerLoopCondition(flag) == TRUE

\* Lines 44-48: top of the loop, take the lock, copy the reference buffer,
\* start the batch read of the joint positions.
ControllerBeginRead ==
    /\ ctl.pc = "loop"
    /\ ControllerLoopCondition(stopFlag)
    /\ locker = "free"
    /\ locker' = "ctrl"
    /\ bus' = [bus EXCEPT !.ctrl = "read"]
    /\ ctl' = [ctl EXCEPT !.pc = "read",
                          !.qD = qDqDdBuffer.qD,
                          !.qDd = qDqDdBuffer.qDd,
                          !.prevErrors = ControllerErrors(ctl.qD, ctl.qA)]
    /\ UNCHANGED <<qDqDdBuffer, call, gripCmd, receivedMessage, stopFlag, hist, planner, comm>>

\* Lines 48-52: the batch read returns, the lock is released, the command is computed.
ControllerRead ==
    /\ ctl.pc = "read"
    /\ \E p \in Postures :
          LET errors == ControllerErrors(ctl.qD, p)
          IN  ctl' = [ctl EXCEPT !.pc = "computed",
                                 !.qA = p,
                                 !.qCds = ControllerCommand(errors, ctl.lastErrors, ctl.qDd),
                                 !.lastErrors = errors]
    /\ locker' = "free"
    /\ bus' = [bus EXCEPT !.ctrl = "none"]
    /\ UNCHANGED <<qDqDdBuffer, call, gripCmd, receivedMessage, stopFlag, hist, planner, comm>>

\* Lines 54-55: take the lock again and start the batch write of the velocities.
ControllerBeginWrite ==
    /\ ctl.pc = "computed"
    /\ locker = "free"
    /\ locker' = "ctrl"
    /\ bus' = [bus EXCEPT !.ctrl = "write"]
    /\ ctl' = [ctl EXCEPT !.pc = "write"]
    /\ UNCHANGED <<qDqDdBuffer, call, gripCmd, receivedMessage, stopFlag, hist, planner, comm>>

\* Where the loop goes after the batch write: back to the top after the sleep
\* of lines 58-61, or out with False (line 56).
ControllerAfterWrite(ok) == IF ok THEN "loop" ELSE "returned"

\* Lines 55-61: the batch write returns ok or not.
ControllerWrite ==
    /\ ctl.pc = "write"
    /\ \E ok \in BOOLEAN :
          ctl' = [ctl EXCEPT !.pc = ControllerAfterWrite(ok),
                             !.wrote = IF ok THEN "ok" ELSE "failed",
                             !.qCds = ZeroLegs, !.prevErrors = ZeroLegs]
    /\ locker' = "free"
    /\ bus' = [bus EXCEPT !.ctrl = "none"]
    /\ UNCHANGED <<qDqDdBuffer, call, gripCmd, receivedMessage, stopFlag, hist, planner, comm>>

----------------------------------------------------------------------------
(* The caller thread: one public method of VelocityController at a time. *)

\* The caller's frame between two calls; ret is what the last call returned
\* ("none" before the first call, "True", "False", "None", or the exception
\* it raised), wrote the result of the last batch write of that call.
Idle(ret) ==
    [op |-> "none", pc |-> "idle", ret |-> ret,
     legsIds |-> <<>>, qDs |-> <<>>, cmds |-> <<>>, trajectoryType |-> "none", i |-> 0,
     qA |-> <<>>, lastErrors |-> <<>>, qCds |-> <<>>, prevErrors |-> <<>>,
     sent |-> 0, checkArray |-> {}, phase |-> 0, wrote |-> "none",
     plan |-> <<>>, poseIdx |-> 0, pending |-> <<>>, startPose |-> "none"]

\* The bus transaction a caller's frame is inside.
BusOf(c) ==
    IF c.pc \in {"asyncRead", "reading", "wrapRead", "grabRead", "platformReading"} THEN "read"
    ELSE IF c.pc \in {"writing", "platformWriting"} THEN "write"
    ELSE "none"

\* No request recorded: the method called last, the last moveLegAsync requests
\* in a row, the reference each leg was last driven to by the current or last
\* movement (<<>>: not driven), the plan of the last walk, and the lengths of
\* the arrays the last call was given (<<>>: not recorded).
NoHistory ==
    [op |-> "none", asyncLeg |-> -1, asyncN |-> 0, asyncQd |-> {},
     target |-> [l \in LEGS_IDS |-> <<>>], walk |-> <<>>, lengths |-> <<>>]

\* Legs a single-leg request is issued for.
RequestLegs == {0, 1}

\* moveLegAsync, line 70: the request waits for the lock.
CallMoveLegAsync ==
    /\ call.pc = "idle"
    /\ ~stopFlag
    /\ \E leg \in RequestLegs :
          call' = [Idle("none") EXCEPT !.op = "moveLegAsync", !.pc = "asyncLock", !.legsIds = <<leg>>]
    /\ hist' = [hist EXCEPT !.op = "moveLegAsync", !.target = NoHistory.target, !.walk = NoHistory.walk]
    /\ UNCHANGED <<qDqDdBuffer, locker, bus, ctl, gripCmd, receivedMessage, stopFlag, planner, comm>>

\* moveLegAsync, lines 70-71: take the lock and start the read of the leg's position.
MoveLegAsyncBeginRead ==
    /\ call.pc = "asyncLock"
    /\ locker = "free"
    /\ locker' = "caller"
    /\ call' = [call EXCEPT !.pc = "asyncRead"]
    /\ bus' = [bus EXCEPT !.caller = BusOf(call')]
    /\ UNCHANGED <<qDqDdBuffer, ctl, gripCmd, receivedMessage, stopFlag, hist, planner, comm>>

\* What moveLegAsync leaves in the reference buffer: lines 72-76 compute qD and
\* qDd from the trajectory and end there, so the buffer is what it was.
MoveLegAsyncBuffer(buffer, leg, traj) == buffer

\* The history after a valid request for leg with references traj: from the
\* second request in a row for the same leg on, the references of the latest.
AsyncHistory(h, leg, traj) ==
    [h EXCEPT !.asyncLeg = leg,
              !.asyncN = IF h.asyncLeg = leg THEN 2 ELSE 1,
              !.asyncQd = IF h.asyncLeg = leg THEN {traj[k].qD : k \in DOMAIN traj} ELSE {}]

\* A moveLegAsync whose invalid trajectory is answered inside the locked
\* block: it returns False with the lock still held.
MoveLegAsyncReadKeepingLock ==
    /\ call.pc = "asyncRead"
    /\ \E p \in Postures, valid \in BOOLEAN, len \in MinLen .. MaxLen :
          LET leg  == call.legsIds[1]
              traj == JointTrajectory(len, p[leg])
          IN  IF valid
              THEN /\ call' = Idle("None")
                   /\ locker' = "free"
                   /\ qDqDdBuffer' = MoveLegAsyncBuffer(qDqDdBuffer, leg, traj)
                   /\ hist' = AsyncHistory(hist, leg, traj)
              ELSE /\ call' = Idle("False")
                   /\ locker' = locker
                   /\ UNCHANGED <<qDqDdBuffer, hist, planner, comm>>
    /\ bus' = [bus EXCEPT !.caller = BusOf(call')]
    /\ UNCHANGED <<ctl, gripCmd, receivedMessage, stopFlag, planner, comm>>

\* moveLegAsync, lines 71-76: the read returns and the lock is released; the
\* trajectory planner raises ValueError (return False) or gives a trajectory,
\* getQdQddLegFF maps it to joint references, and the method ends (None).
MoveLegAsyncRead ==
    /\ call.pc = "asyncRead"
    /\ locker' = "free"
    /\ \E p \in Postures, valid \in BOOLEAN, len \in MinLen .. MaxLen :
          LET leg  == call.legsIds[1]
              traj == JointTrajectory(len, p[leg])
          IN  IF valid
              THEN /\ call' = Idle("None")
                   /\ qDqDdBuffer' = MoveLegAsyncBuffer(qDqDdBuffer, leg, traj)
                   /\ hist' = AsyncHistory(hist, leg, traj)
              ELSE /\ call' = Idle("False")
                   /\ UNCHANGED <<qDqDdBuffer, hist, planner, comm>>
    /\ bus' = [bus EXCEPT !.caller = BusOf(call')]
    /\ UNCHANGED <<ctl, gripCmd, receivedMessage, stopFlag, planner, comm>>

----------------------------------------------------------------------------
(* moveLegs: the frames of the caller inside it. *)

\* The trajectories are sampled with the period of the loop: 1 / timeStep (line 136).
TimeStepRate == CONTROLLER_FREQUENCY

\* Lines 128-129: legsIds == 5 selects every leg (the selector 5 is written <<5>>).
ExpandLegsIds(legsIds) == IF legsIds = <<5>> THEN <<0, 1, 2, 3, 4>> ELSE legsIds

\* Line 146: index of the first longest trajectory.
LongerIdx(qDs) ==
    CHOOSE k \in DOMAIN qDs :
        /\ \A m \in DOMAIN qDs : Len(qDs[m]) <= Len(qDs[k])
        /\ \A m \in 1 .. (k - 1) : Len(qDs[m]) < Len(qDs[k])

\* Line 152: grippersCommands == [OPEN_COMMAND] * len(legsIds)  (None is written <<>>).
AllOpen(cmds, legsIds) == cmds = [k \in DOMAIN legsIds |-> OPEN_COMMAND]

\* Line 163: the index is still within the boundaries of the trajectory.
StillTracking(i, traj) == i < Len(traj) - 1

\* A leg that starts one tick late: on tick i it is driven from the sample before.
SampleOfTickLate(traj, i) == traj[IF i = 0 THEN 1 ELSE i]

\* Lines 164-165: the sample the leg is driven from on tick i (ticks count from 0).
SampleOfTick(traj, i) == traj[i + 1]

\* Lines 167-169: error, dE and the PD law with feed-forward for one leg.
LegCommand(qD, qDd, qA, lastError, rate) ==
    [j \in Joints |->
        Kp[j] * (qD[j] - qA[j])
        + Kd[j] * (((qD[j] - qA[j]) - lastError[j]) * rate)
        + qDd[j]]

\* Lines 161-176: the velocity command of every given leg on tick c.i.
MoveLegsCommand(c, qA) ==
    [k \in DOMAIN c.legsIds |->
        IF StillTracking(c.i, c.qDs[k])
        THEN LegCommand(SampleOfTick(c.qDs[k], c.i).qD, SampleOfTick(c.qDs[k], c.i).qDd,
                        qA[k], c.lastErrors[k], TimeStepRate)
        ELSE Zero3]

\* Line 170: lastErrors[l] = error, for the legs still tracking.
MoveLegsLastError(c, qA) ==
    [k \in DOMAIN c.legsIds |->
        IF StillTracking(c.i, c.qDs[k])
        THEN VSub(SampleOfTick(c.qDs[k], c.i).qD, qA[k])
        ELSE c.lastErrors[k]]

\* A moveLegs that tells the gripper of every leg with a close command to
\* close on every tick.
LegsToCloseOnEveryTick(c) ==
    {c.legsIds[k] : k \in {m \in DOMAIN c.legsIds :
        /\ c.cmds # <<>>
        /\ c.cmds[m] = CLOSE_COMMAND}}

\* Lines 172-175: the legs whose gripper is told to close on tick c.i.
LegsToClose(c) ==
    {c.legsIds[k] : k \in {m \in DOMAIN c.legsIds :
        /\ ~StillTracking(c.i, c.qDs[m])
        /\ c.cmds # <<>>
        /\ c.cmds[m] = CLOSE_COMMAND}}

\* The error of tick c.i for every leg that has a sample on that tick.
TickErrors(c) ==
    [k \in DOMAIN c.legsIds |->
        IF c.i < Len(c.qDs[k]) THEN VSub(SampleOfTick(c.qDs[k], c.i).qD, c.qA[k]) ELSE Zero3]

\* Lines 128-153: moveLegs is entered from frame c; every reference is computed
\* (lines 140-143), lastErrors is zero, and either the grippers are opened
\* first or the first tick starts with its batch read.
EnterMoveLegs(c, legsIds, qDs, cmds) ==
    [c EXCEPT !.pc = IF AllOpen(cmds, ExpandLegsIds(legsIds)) THEN "open" ELSE "reading",
              !.legsIds = ExpandLegsIds(legsIds),
              !.qDs = qDs,
              !.cmds = cmds,
              !.i = 0,
              !.qA = [k \in DOMAIN ExpandLegsIds(legsIds) |-> Zero3],
              !.lastErrors = [k \in DOMAIN ExpandLegsIds(legsIds) |-> Zero3],
              !.qCds = [k \in DOMAIN ExpandLegsIds(legsIds) |-> Zero3],
              !.prevErrors = [k \in DOMAIN ExpandLegsIds(legsIds) |-> Zero3],
              !.checkArray = {}]

\* Lines 190-220: moveLegsWrapper is entered from frame c and starts the read
\* of the start positions (readLegs is True).
EnterWrapper(c, legsIds, cmds, trajectoryType) ==
    [c EXCEPT !.pc = "wrapRead", !.legsIds = ExpandLegsIds(legsIds), !.cmds = cmds,
              !.trajectoryType = trajectoryType]

\* Lines 264-275: moveLegsAndGrabPins is entered from frame c and starts the
\* read of the legs' positions (globalStartPositions is None).
EnterGrab(c, legsIds) ==
    [c EXCEPT !.pc = "grabRead", !.legsIds = ExpandLegsIds(legsIds), !.phase = 1]

\* Lines 279, 282, 285: gripper commands and trajectory type of the three
\* moveLegsWrapper calls of moveLegsAndGrabPins.
PhaseCommands(phase, legsIds) ==
    IF phase = 1 THEN [k \in DOMAIN legsIds |-> OPEN_COMMAND]
    ELSE IF phase = 3 THEN [k \in DOMAIN legsIds |-> CLOSE_COMMAND]
    ELSE <<>>

PhaseTrajectoryType(phase) == IF phase = 2 THEN "bezier" ELSE "minJerk"

----------------------------------------------------------------------------
(* movePlatform, movePlatformWrapper and walk: the frames of the caller. *)

AllLegs == <<0, 1, 2, 3, 4>>

\* Lines 301-309: movePlatform is entered from frame c with the joint
\* references of a platform trajectory of len samples; the first tick starts
\* with its batch read.
EnterMovePlatform(c, len) ==
    [c EXCEPT !.pc = "platformReading",
              !.legsIds = AllLegs,
              !.qDs = [k \in DOMAIN AllLegs |-> JointTrajectory(len, Zero3)],
              !.i = 0,
              !.qA = [k \in DOMAIN AllLegs |-> Zero3],
              !.lastErrors = [k \in DOMAIN AllLegs |-> Zero3],
              !.qCds = [k \in DOMAIN AllLegs |-> Zero3],
              !.prevErrors = [k \in DOMAIN AllLegs |-> Zero3],
              !.startPose = "read"]

\* Line 319: the tick of the last sample of the platform trajectory.
PlatformLastTick(c) == c.i = Len(c.qDs[1]) - 1

\* A movePlatform that tracks its last sample instead of stopping on it.
MovePlatformCommandTrackingLast(c, qA) ==
    [k \in DOMAIN c.legsIds |->
        LegCommand(SampleOfTick(c.qDs[k], c.i).qD, SampleOfTick(c.qDs[k], c.i).qDd,
                   qA[k], c.lastErrors[k], TimeStepRate)]

\* Lines 314-320: the velocity command of every leg on tick c.i.
MovePlatformCommand(c, qA) ==
    [k \in DOMAIN c.legsIds |->
        IF PlatformLastTick(c)
        THEN Zero3
        ELSE LegCommand(SampleOfTick(c.qDs[k], c.i).qD, SampleOfTick(c.qDs[k], c.i).qDd,
                        qA[k], c.lastErrors[k], TimeStepRate)]

\* Line 317: lastErrors = errors, on every tick.
MovePlatformLastError(c, qA) ==
    [k \in DOMAIN c.legsIds |-> VSub(SampleOfTick(c.qDs[k], c.i).qD, qA[k])]

\* getIdsOfAttachedLegs, lines 494-505: the loop is entered (the empty string
\* is not 10 characters long) and its first statement takes self.lock, an
\* attribute GripperController does not have (its lock is self.locker), so
\* the call raises AttributeError whatever the received message is.
GetIdsOfAttachedLegs(recMsg) == [raised |-> TRUE, ids |-> {}]

\* movePlatformWrapper, lines 344-348, entered from frame c: False with fewer
\* than four legs, the exception of getIdsOfAttachedLegs, or the start of the
\* read of the platform pose.
EnterMovePlatformWrapper(c, legsIds, recMsg) ==
    IF Len(legsIds) < 4 THEN [c EXCEPT !.pc = "wrapperReturned", !.ret = "False"]
    ELSE IF GetIdsOfAttachedLegs(recMsg).raised
         THEN [c EXCEPT !.pc = "wrapperReturned", !.ret = "AttributeError"]
         ELSE [c EXCEPT !.pc = "platformReading", !.legsIds = AllLegs, !.startPose = "unread"]

\* walk, line 382: the legs whose foothold differs between pose poseIdx - 1
\* and pose poseIdx, in ascending order (poses count from 1 here).
LegsToMoveIdxs(plan, poseIdx) ==
    SelectSeq(AllLegs, LAMBDA l : plan[poseIdx][l] # plan[poseIdx - 1][l])

\* walk, lines 376-379, for pose c.poseIdx: the platform move is started; a
\* False of movePlatformWrapper ends the walk with False, its exception ends it
\* with that exception.
WalkPose(c, recMsg) ==
    LET w == EnterMovePlatformWrapper([c EXCEPT !.phase = 0], AllLegs, recMsg)
    IN  IF w.pc = "wrapperReturned" THEN Idle(w.ret) ELSE w

\* walk, lines 364-366 and 392: the next pose, or True after the last.
WalkNextPose(c, recMsg) ==
    IF c.poseIdx >= Len(c.plan) THEN Idle("True")
    ELSE WalkPose([c EXCEPT !.poseIdx = c.poseIdx + 1], recMsg)

\* walk, lines 384-388: the next leg of the pose is moved and grabs its pin.
WalkNextLeg(c, recMsg) ==
    IF c.pending = <<>> THEN WalkNextPose(c, recMsg)
    ELSE EnterGrab([c EXCEPT !.pending = Tail(c.pending)], <<Head(c.pending)>>)

\* What the caller does when moveLegsAndGrabPins returns r in frame c: inside
\* walk (lines 385-388) False ends the walk, True goes on with the next leg.
GrabReturned(c, r, recMsg) ==
    IF c.op = "walk"
    THEN IF r = "True" THEN WalkNextLeg(c, recMsg) ELSE Idle("False")
    ELSE Idle(r)

\* A moveLegsAndGrabPins that goes on with its next phase whatever the
\* moveLegsWrapper call of phase c.phase returns.
AfterPhaseContinuing(c, r, recMsg) ==
    IF c.phase < 3
    THEN EnterWrapper([c EXCEPT !.phase = c.phase + 1], c.legsIds,
                      PhaseCommands(c.phase + 1, c.legsIds), PhaseTrajectoryType(c.phase + 1))
    ELSE GrabReturned(c, "True", recMsg)

\* moveLegsAndGrabPins, lines 279-289: what follows the return r of the
\* moveLegsWrapper call of phase c.phase.
AfterPhase(c, r, recMsg) ==
    IF r # "True" THEN GrabReturned(c, "False", recMsg)
    ELSE IF c.phase < 3
         THEN EnterWrapper([c EXCEPT !.phase = c.phase + 1], c.legsIds,
                           PhaseCommands(c.phase + 1, c.legsIds), PhaseTrajectoryType(c.phase + 1))
         ELSE GrabReturned(c, "True", recMsg)

\* What the caller does when the movement of frame c (moveLegs, reached
\* directly or through moveLegsWrapper, or movePlatform) returns r.
Returned(c, r, recMsg) ==
    IF c.phase > 0 THEN AfterPhase(c, r, recMsg)
    ELSE IF c.op = "walk"
         THEN IF r = "True"
              THEN WalkNextLeg([c EXCEPT !.pending = LegsToMoveIdxs(c.plan, c.poseIdx)], recMsg)
              ELSE Idle("False")
         ELSE Idle(r)

----------------------------------------------------------------------------
(* Inputs of the caller's requests. *)

\* Leg selections given to moveLegs.
LegsIdsInputs == {<<0>>, <<1, 3>>, <<5>>}

\* Lengths of the trajectories of n legs: any for up to two legs, equal ones beyond.
LengthsInputs(n) ==
    IF n <= 2 THEN [1 .. n -> MinLen .. MaxLen]
    ELSE {[k \in 1 .. n |-> len] : len \in MinLen .. MaxLen}

\* Lengths of the trajectories of n legs that are given equal durations.
EqualLengths(n) == {[k \in 1 .. n |-> len] : len \in MinLen .. MaxLen}

\* Trajectory types given to moveLegsWrapper ("linear" is not one it knows).
TrajectoryTypes == {"bezier", "linear"}

\* Leg selections given to moveLegsWrapper and to moveLegsAndGrabPins.
WrapperLegsInputs == {<<0>>}
GrabLegsInputs == {<<1, 3>>}

\* Leg selections given to movePlatformWrapper.
PlatformLegsInputs == {<<0, 1, 2>>, AllLegs}

\* Footholds (pin ids per leg) of the poses of a walking plan.
PinsA == [l \in LEGS_IDS |-> 10 + l]
PinsB == [l \in LEGS_IDS |-> IF l \in {1, 3} THEN 20 + l ELSE 10 + l]

\* Plans calculateWalkingMovesFF gives to walk: the footholds of each pose.
WalkPlans == {<<PinsA>>, <<PinsA, PinsA>>, <<PinsA, PinsB>>}

----------------------------------------------------------------------------
(* The gripper controller. *)

\* The 10-character status line of the microcontroller: the gripper states of
\* the five legs, then the switch states (closed on an anchored leg).
StatusLine(cmd) ==
    [k \in 1 .. RECEIVED_MESSAGE_LENGTH |->
        IF k <= NUMBER_OF_LEGS
        THEN IF cmd[k - 1] = OPEN_COMMAND THEN GRIPPER_OPENED_RESPONSE ELSE GRIPPER_CLOSED_RESPONSE
        ELSE SWITCH_CLOSE_RESPONSE]

\* readData, lines 430-439: the reader thread stores the newest line.
readData ==
    /\ receivedMessage # StatusLine(gripCmd)
    /\ receivedMessage' = StatusLine(gripCmd)
    /\ UNCHANGED <<qDqDdBuffer, locker, bus, ctl, call, gripCmd, stopFlag, hist, planner, comm>>

\* openGrippersAndWait, lines 468-470: an open command to the next of the given
\* legs (call.sent legs have been sent theirs); after the last one the wait
\* starts with an empty checkArray.
OpenGrippers ==
    /\ call.pc = "open"
    /\ gripCmd' = [l \in LEGS_IDS |->
                      IF call.sent < Len(call.legsIds) /\ l = call.legsIds[call.sent + 1]
                      THEN OPEN_COMMAND ELSE gripCmd[l]]
    /\ call' = IF call.sent + 1 < Len(call.legsIds)
               THEN [call EXCEPT !.sent = call.sent + 1]
               ELSE [call EXCEPT !.pc = "wait", !.sent = 0, !.checkArray = {}]
    /\ UNCHANGED <<qDqDdBuffer, locker, bus, ctl, receivedMessage, stopFlag, hist, planner, comm>>

\* Lines 474-477: the legs a received message confirms as open.
ConfirmedOpen(recMsg, legsIds) ==
    IF Len(recMsg) = RECEIVED_MESSAGE_LENGTH
    THEN {k \in DOMAIN legsIds : recMsg[legsIds[k] + 1] = GRIPPER_OPENED_RESPONSE}
    ELSE {}

\* A wait that ends as soon as any of the given legs has been seen open.
WaitGrippersAnyLeg ==
    /\ call.pc = "wait"
    /\ LET checked == call.checkArray \cup ConfirmedOpen(receivedMessage, call.legsIds)
       IN  /\ checked # call.checkArray
           /\ call' = [call EXCEPT !.checkArray = checked, !.pc = "reading"]
    /\ bus' = [bus EXCEPT !.caller = BusOf(call')]
    /\ UNCHANGED <<qDqDdBuffer, locker, ctl, gripCmd, receivedMessage, stopFlag, hist, planner, comm>>

\* openGrippersAndWait, lines 471-478: one poll of the received message; the
\* wait ends when every given leg has been seen open, and the first tick of
\* moveLegs starts with its batch read.
WaitGrippers ==
    /\ call.pc = "wait"
    /\ LET checked == call.checkArray \cup ConfirmedOpen(receivedMessage, call.legsIds)
       IN  /\ checked # call.checkArray
           /\ call' = [call EXCEPT !.checkArray = checked,
                                   !.pc = IF checked = DOMAIN call.legsIds THEN "reading" ELSE "wait"]
    /\ bus' = [bus EXCEPT !.caller = BusOf(call')]
    /\ UNCHANGED <<qDqDdBuffer, locker, ctl, gripCmd, receivedMessage, stopFlag, hist, planner, comm>>

----------------------------------------------------------------------------
(* moveLegs, moveLegsWrapper and moveLegsAndGrabPins: the caller's steps. *)

\* moveLegs called directly, without gripper commands.
CallMoveLegs ==
    /\ call.pc = "idle"
    /\ ~stopFlag
    /\ \E legsIds \in LegsIdsInputs :
          \E lens \in LengthsInputs(Len(ExpandLegsIds(legsIds))) :
             call' = EnterMoveLegs([Idle("none") EXCEPT !.op = "moveLegs"], legsIds,
                                   [k \in DOMAIN lens |-> JointTrajectory(lens[k], Zero3)], <<>>)
    /\ bus' = [bus EXCEPT !.caller = BusOf(call')]
    /\ hist' = [NoHistory EXCEPT !.op = "moveLegs"]
    /\ UNCHANGED <<qDqDdBuffer, locker, ctl, gripCmd, receivedMessage, stopFlag, planner, comm>>

\* Lines 159-176: the batch read of tick call.i returns, the command of every
\* leg is computed, the grippers of the legs that are done are told to close,
\* and the batch write starts.
MoveLegsRead ==
    /\ call.pc = "reading"
    /\ \E p \in Postures :
          LET qA == [k \in DOMAIN call.legsIds |-> p[call.legsIds[k]]]
          IN  call' = [call EXCEPT !.pc = "writing",
                                   !.qA = qA,
                                   !.qCds = MoveLegsCommand(call, qA),
                                   !.lastErrors = MoveLegsLastError(call, qA)]
    /\ gripCmd' = [l \in LEGS_IDS |-> IF l \in LegsToClose(call) THEN CLOSE_COMMAND ELSE gripCmd[l]]
    /\ bus' = [bus EXCEPT !.caller = BusOf(call')]
    /\ UNCHANGED <<qDqDdBuffer, locker, ctl, receivedMessage, stopFlag, hist, planner, comm>>

\* The references the legs were driven to once the write of tick c.i is done.
Driven(target, c) ==
    [l \in LEGS_IDS |->
        IF \E k \in DOMAIN c.legsIds : c.legsIds[k] = l /\ StillTracking(c.i, c.qDs[k])
        THEN SampleOfTick(c.qDs[CHOOSE k \in DOMAIN c.legsIds : c.legsIds[k] = l], c.i).qD
        ELSE target[l]]

\* Lines 156 and 186-188: the next tick starts with its batch read, or the
\* longest trajectory is through and moveLegs returns True.
MoveLegsNextTick(c, recMsg) ==
    IF c.i + 1 < Len(c.qDs[LongerIdx(c.qDs)])
    THEN [c EXCEPT !.pc = "reading", !.i = c.i + 1, !.prevErrors = TickErrors(c),
                   !.qCds = [k \in DOMAIN c.legsIds |-> Zero3]]
    ELSE Returned(c, "True", recMsg)

\* A moveLegs that goes on to the next tick whatever the batch write reports.
MoveLegsAfterWriteIgnoring(c, ok, recMsg) == MoveLegsNextTick(c, recMsg)

\* Lines 178-179: a failed batch write makes moveLegs return False.
MoveLegsAfterWrite(c, ok, recMsg) ==
    IF ok THEN MoveLegsNextTick(c, recMsg) ELSE Returned(c, "False", recMsg)

\* Lines 178-184: the batch write of tick call.i returns ok or not.
MoveLegsWrite ==
    /\ call.pc = "writing"
    /\ \E ok \in BOOLEAN :
          /\ call' = [MoveLegsAfterWrite(call, ok, receivedMessage)
                         EXCEPT !.wrote = IF ok THEN "ok" ELSE "failed"]
          /\ hist' = IF ok THEN [hist EXCEPT !.target = Driven(hist.target, call)] ELSE hist
    /\ bus' = [bus EXCEPT !.caller = BusOf(call')]
    /\ UNCHANGED <<qDqDdBuffer, locker, ctl, gripCmd, receivedMessage, stopFlag, planner, comm>>

\* moveLegsWrapper called directly, without gripper commands, readLegs True.
CallMoveLegsWrapper ==
    /\ call.pc = "idle"
    /\ ~stopFlag
    /\ \E legsIds \in WrapperLegsInputs, trajectoryType \in TrajectoryTypes :
          call' = EnterWrapper([Idle("none") EXCEPT !.op = "moveLegsWrapper"],
                               legsIds, <<>>, trajectoryType)
    /\ bus' = [bus EXCEPT !.caller = BusOf(call')]
    /\ hist' = [NoHistory EXCEPT !.op = "moveLegsWrapper"]
    /\ UNCHANGED <<qDqDdBuffer, locker, ctl, gripCmd, receivedMessage, stopFlag, planner, comm>>

\* moveLegsWrapper, lines 220-243: the read of the start positions returns; an
\* unknown trajectory type returns False, otherwise a trajectory is planned
\* for every leg from where it is and moveLegs is entered.  In phases 1 and 3
\* of moveLegsAndGrabPins every leg is given the same duration.
WrapperRead ==
    /\ call.pc = "wrapRead"
    /\ \E p \in Postures :
          \E lens \in IF call.phase \in {1, 3} THEN EqualLengths(Len(call.legsIds))
                                              ELSE LengthsInputs(Len(call.legsIds)) :
             call' = IF call.trajectoryType \in {"bezier", "minJerk"}
                     THEN EnterMoveLegs(call, call.legsIds,
                              [k \in DOMAIN lens |-> JointTrajectory(lens[k], p[call.legsIds[k]])],
                              call.cmds)
                     ELSE Returned(call, "False", receivedMessage)
    /\ bus' = [bus EXCEPT !.caller = BusOf(call')]
    /\ UNCHANGED <<qDqDdBuffer, locker, ctl, gripCmd, receivedMessage, stopFlag, hist, planner, comm>>

\* moveLegsAndGrabPins called (globalStartPositions None): lines 264-275.
CallMoveLegsAndGrabPins ==
    /\ call.pc = "idle"
    /\ ~stopFlag
    /\ \E legsIds \in GrabLegsInputs :
          call' = EnterGrab([Idle("none") EXCEPT !.op = "moveLegsAndGrabPins"], legsIds)
    /\ bus' = [bus EXCEPT !.caller = BusOf(call')]
    /\ hist' = [NoHistory EXCEPT !.op = "moveLegsAndGrabPins"]
    /\ UNCHANGED <<qDqDdBuffer, locker, ctl, gripCmd, receivedMessage, stopFlag, planner, comm>>

\* moveLegsAndGrabPins, lines 275-279: the read of the legs' positions returns
\* and the first moveLegsWrapper call (open, detach) is made.
GrabRead ==
    /\ call.pc = "grabRead"
    /\ call' = EnterWrapper(call, call.legsIds, PhaseCommands(1, call.legsIds), PhaseTrajectoryType(1))
    /\ bus' = [bus EXCEPT !.caller = BusOf(call')]
    /\ UNCHANGED <<qDqDdBuffer, locker, ctl, gripCmd, receivedMessage, stopFlag, hist, planner, comm>>

----------------------------------------------------------------------------
(* movePlatform, movePlatformWrapper and walk: the caller's steps. *)

\* movePlatform called directly.
CallMovePlatform ==
    /\ call.pc = "idle"
    /\ ~stopFlag
    /\ \E len \in MinLen .. MaxLen :
          call' = EnterMovePlatform([Idle("none") EXCEPT !.op = "movePlatform"], len)
    /\ bus' = [bus EXCEPT !.caller = BusOf(call')]
    /\ hist' = [NoHistory EXCEPT !.op = "movePlatform"]
    /\ UNCHANGED <<qDqDdBuffer, locker, ctl, gripCmd, receivedMessage, stopFlag, planner, comm>>

\* movePlatformWrapper, lines 348-350: the read of the platform pose returns
\* and movePlatform is entered; movePlatform, lines 313-320: the batch read of
\* tick call.i returns, the command is computed and the batch write starts.
MovePlatformRead ==
    /\ call.pc = "platformReading"
    /\ IF call.startPose = "unread"
       THEN \E len \in MinLen .. MaxLen : call' = EnterMovePlatform(call, len)
       ELSE \E p \in Postures :
               LET qA == [k \in DOMAIN call.legsIds |-> p[call.legsIds[k]]]
               IN  call' = [call EXCEPT !.pc = "platformWriting",
                                        !.qA = qA,
                                        !.qCds = MovePlatformCommand(call, qA),
                                        !.lastErrors = MovePlatformLastError(call, qA)]
    /\ bus' = [bus EXCEPT !.caller = BusOf(call')]
    /\ UNCHANGED <<qDqDdBuffer, locker, ctl, gripCmd, receivedMessage, stopFlag, hist, planner, comm>>

\* The references the platform's legs were driven to once the write of tick c.i is done.
PlatformDriven(target, c) ==
    [l \in LEGS_IDS |-> IF PlatformLastTick(c) THEN target[l] ELSE SampleOfTick(c.qDs[l + 1], c.i).qD]

\* Lines 311 and 330-332: the next tick, or True after the last sample.
MovePlatformNextTick(c, recMsg) ==
    IF c.i + 1 < Len(c.qDs[1])
    THEN [c EXCEPT !.pc = "platformReading", !.i = c.i + 1, !.prevErrors = TickErrors(c),
                   !.qCds = [k \in DOMAIN c.legsIds |-> Zero3]]
    ELSE Returned(c, "True", recMsg)

\* Lines 322-323: a failed batch write makes movePlatform return False.
MovePlatformAfterWrite(c, ok, recMsg) ==
    IF ok THEN MovePlatformNextTick(c, recMsg) ELSE Returned(c, "False", recMsg)

\* Lines 322-328: the batch write of tick call.i returns ok or not.
MovePlatformWrite ==
    /\ call.pc = "platformWriting"
    /\ \E ok \in BOOLEAN :
          /\ call' = [MovePlatformAfterWrite(call, ok, receivedMessage)
                         EXCEPT !.wrote = IF ok THEN "ok" ELSE "failed"]
          /\ hist' = IF ok THEN [hist EXCEPT !.target = PlatformDriven(hist.target, call)] ELSE hist
    /\ bus' = [bus EXCEPT !.caller = BusOf(call')]
    /\ UNCHANGED <<qDqDdBuffer, locker, ctl, gripCmd, receivedMessage, stopFlag, planner, comm>>

\* movePlatformWrapper called directly.
CallMovePlatformWrapper ==
    /\ call.pc = "idle"
    /\ ~stopFlag
    /\ \E legsIds \in PlatformLegsInputs :
          LET w == EnterMovePlatformWrapper([Idle("none") EXCEPT !.op = "movePlatformWrapper"],
                                            legsIds, receivedMessage)
          IN  call' = IF w.pc = "wrapperReturned" THEN Idle(w.ret) ELSE w
    /\ bus' = [bus EXCEPT !.caller = BusOf(call')]
    /\ hist' = [NoHistory EXCEPT !.op = "movePlatformWrapper"]
    /\ UNCHANGED <<qDqDdBuffer, locker, ctl, gripCmd, receivedMessage, stopFlag, planner, comm>>

\* walk called: the plan is computed (line 361) and the loop over its poses starts.
CallWalk ==
    /\ call.pc = "idle"
    /\ ~stopFlag
    /\ \E plan \in WalkPlans :
          /\ call' = WalkNextPose([Idle("none") EXCEPT !.op = "walk", !.plan = plan, !.poseIdx = 1],
                                  receivedMessage)
          /\ hist' = [NoHistory EXCEPT !.op = "walk", !.walk = plan]
    /\ bus' = [bus EXCEPT !.caller = BusOf(call')]
    /\ UNCHANGED <<qDqDdBuffer, locker, ctl, gripCmd, receivedMessage, stopFlag, planner, comm>>

----------------------------------------------------------------------------
(* The stop flag of the design. *)

\* The owner of the controller sets the stop flag (between two requests).
SetStopFlag ==
    /\ ~stopFlag
    /\ call.pc = "idle"
    /\ stopFlag' = TRUE
    /\ UNCHANGED <<qDqDdBuffer, locker, bus, ctl, call, gripCmd, receivedMessage, hist, planner, comm>>

----------------------------------------------------------------------------
(* The serial link of GripperController (controllers.py, lines 397-516).     *)

\* The serial link when nothing is in flight and the handshake is over: the
\* holder of GripperController.locker, the position of the reader thread and
\* the line it has read, the position of the thread inside a method of the
\* controller, that method and what it raised, the "init" messages and the
\* lines in flight, and whether an "init" has been answered.
NoComm ==
    [locker |-> "free", reader |-> "off", msg |-> <<>>, main |-> "idle", op |-> "none",
     raised |-> "none", inits |-> 0, lines |-> <<>>, answered |-> FALSE]

----------------------------------------------------------------------------
(* The system. *)

\* No run of create_walking_instructions.
NoPlanner ==
    [pc |-> "none", selected_pins |-> <<>>, legs_moving_order |-> <<>>, idx |-> 0,
     poses |-> <<>>, pins_instructions |-> <<>>]

Init ==
    /\ planner = NoPlanner
    /\ qDqDdBuffer = [qD |-> ZeroLegs, qDd |-> ZeroLegs]
    /\ locker = "free"
    /\ bus = [ctrl |-> "none", caller |-> "none"]
    /\ ctl = ControllerFrame
    /\ call = Idle("none")
    /\ gripCmd = [l \in LEGS_IDS |-> "none"]
    /\ receivedMessage = INIT_RESPONSE
    /\ stopFlag = FALSE
    /\ hist = NoHistory
    /\ comm = NoComm

Next ==
    \/ initControllerThread
    \/ ControllerBeginRead
    \/ ControllerRead
    \/ ControllerBeginWrite
    \/ ControllerWrite
    \/ CallMoveLegAsync
    \/ MoveLegAsyncBeginRead
    \/ MoveLegAsyncRead
    \/ CallMoveLegs
    \/ OpenGrippers
    \/ WaitGrippers
    \/ MoveLegsRead
    \/ MoveLegsWrite
    \/ CallMoveLegsWrapper
    \/ WrapperRead
    \/ CallMoveLegsAndGrabPins
    \/ GrabRead
    \/ CallMovePlatform
    \/ MovePlatformRead
    \/ MovePlatformWrite
    \/ CallMovePlatformWrapper
    \/ CallWalk
    \/ readData
    \/ SetStopFlag

Spec == Init /\ [][Next]_vars

----------------------------------------------------------------------------
(* The planner: create_walking_instructions (pathplanner.py).  A pose of the *)
(* body path is written as its step index; the start pose is step 0.         *)

\* Foothold selections the selection method gives for a path step.
Selections == {PinsA, PinsB}

\* Lines 131-137: the order in which the legs move, from the direction
\* atan2(dx, dy) of the goal as seen from the start (dx, dy: signs of the
\* differences of the x and of the y coordinates).
LegsMovingOrder(dx, dy) ==
    IF dx = 0
    THEN IF dy < 0 THEN <<0, 1, 4, 2, 3>> ELSE <<2, 3, 1, 4, 0>>
    ELSE IF dx > 0 THEN <<4, 3, 0, 2, 1>> ELSE <<1, 2, 0, 3, 4>>

\* Lines 141-142 and 146: the instruction of a selection, leg by leg in moving order.
PinsInstruction(order, pins) == [k \in DOMAIN order |-> <<order[k], pins[order[k]]>>]

\* A planner that emits a step only where the selection changes.
EmitsStepOnChangeOnly(selected_pins, idx) ==
    \E l \in LEGS_IDS : selected_pins[idx + 1][l] # selected_pins[idx][l]

\* Line 148: the selection of step idx differs from the one of step idx - 1,
\* or idx is the last step (steps count from 0).
EmitsStep(selected_pins, idx) ==
    \/ \E l \in LEGS_IDS : selected_pins[idx + 1][l] # selected_pins[idx][l]
    \/ idx = Len(selected_pins) - 1

\* Lines 126-137: create_walking_instructions is called; the path and the
\* selections are computed, poses and pins_instructions hold step 0.
PlannerInit ==
    /\ \E n \in 1 .. MaxSteps, dx \in {-1, 0, 1}, dy \in {-1, 0, 1} :
          \E selected_pins \in [1 .. n -> Selections] :
             planner = [pc |-> "loop", selected_pins |-> selected_pins,
                        legs_moving_order |-> LegsMovingOrder(dx, dy), idx |-> 0,
                        poses |-> <<0>>,
                        pins_instructions |-> <<[k \in DOMAIN AllLegs |-> <<AllLegs[k], selected_pins[1][AllLegs[k]]>>]>>]
    /\ qDqDdBuffer = [qD |-> ZeroLegs, qDd |-> ZeroLegs]
    /\ locker = "free"
    /\ bus = [ctrl |-> "none", caller |-> "none"]
    /\ ctl = ControllerFrame
    /\ call = Idle("none")
    /\ gripCmd = [l \in LEGS_IDS |-> "none"]
    /\ receivedMessage = INIT_RESPONSE
    /\ stopFlag = FALSE
    /\ hist = NoHistory
    /\ comm = NoComm

\* Lines 144-149: one iteration of the loop over the selections.
PlannerStep ==
    /\ planner.pc = "loop"
    /\ planner.idx < Len(planner.selected_pins)
    /\ planner' =
          IF planner.idx = 0
          THEN [planner EXCEPT !.idx = 1,
                  !.pins_instructions[Len(planner.pins_instructions)] =
                      [k \in DOMAIN planner.legs_moving_order |->
                          planner.pins_instructions[Len(planner.pins_instructions)][planner.legs_moving_order[k] + 1]]]
          ELSE IF EmitsStep(planner.selected_pins, planner.idx)
               THEN [planner EXCEPT !.idx = planner.idx + 1,
                       !.poses = Append(planner.poses, planner.idx),
                       !.pins_instructions = Append(planner.pins_instructions,
                           PinsInstruction(planner.legs_moving_order, planner.selected_pins[planner.idx + 1]))]
               ELSE [planner EXCEPT !.idx = planner.idx + 1]
    /\ UNCHANGED <<qDqDdBuffer, locker, bus, ctl, call, gripCmd, receivedMessage, stopFlag, hist, comm>>

\* Line 151: the loop is through, poses and pins_instructions are returned.
PlannerReturn ==
    /\ planner.pc = "loop"
    /\ planner.idx = Len(planner.selected_pins)
    /\ planner' = [planner EXCEPT !.pc = "returned"]
    /\ UNCHANGED <<qDqDdBuffer, locker, bus, ctl, call, gripCmd, receivedMessage, stopFlag, hist, comm>>

PlannerNext ==
    \/ PlannerStep
    \/ PlannerReturn

SpecPlanner == PlannerInit /\ [][PlannerNext]_vars

----------------------------------------------------------------------------
(* The planner: calculate_spider_body_path (pathplanner.py).  Lengths are in *)
(* hundredths of a metre; a pose is <<x, y, z, yaw>>.  A pose of the path is *)
(* the exact fraction v / den.                                               *)

\* Lines 15-17: MAX_LINEAR_STEP is a module-level function under @property:
\* the name is bound to a property object, not to the number 0.06 the
\* function would return (6 hundredths).
MAX_LINEAR_STEP == [isProperty |-> TRUE, fget |-> 6]

\* Poses the body path is asked for.
PathCoordinatesX == {0, 6, 7, 13}
PathCoordinatesY == {0, 6, -8}
PathCoordinatesZ == {0, 5}
PathYaws == {0, 1}
PathStarts == {<<0, 0, 0, 0>>, <<1, 1, 0, 0>>}
PathGoals == {<<x, y, z, yaw>> : x \in PathCoordinatesX, y \in PathCoordinatesY,
                                  z \in PathCoordinatesZ, yaw \in PathYaws}

\* Line 35: the square of the distance to travel, in the x-y plane only.
SquaredDistanceToTravel(start_pose, goal_pose) ==
    (goal_pose[1] - start_pose[1]) * (goal_pose[1] - start_pose[1])
    + (goal_pose[2] - start_pose[2]) * (goal_pose[2] - start_pose[2])

\* Line 37: math.ceil(distance_to_travel / step) + 1, for a step that is a number.
NumberOfSteps(squared_distance, step) ==
    1 + CHOOSE m \in 0 .. squared_distance :
            /\ m * m * step * step >= squared_distance
            /\ \A k \in 0 .. (m - 1) : k * k * step * step < squared_distance

\* Line 38: np.linspace(start_pose, goal_pose, number_of_steps); the last
\* element is the goal pose itself.
LinearPath(start_pose, goal_pose, number_of_steps) ==
    [k \in 1 .. number_of_steps |->
        IF k = number_of_steps
        THEN [v |-> goal_pose, den |-> 1]
        ELSE [v |-> [c \in 1 .. 4 |-> start_pose[c] * (number_of_steps - 1)
                                       + (k - 1) * (goal_pose[c] - start_pose[c])],
              den |-> number_of_steps - 1]]

\* Line 40: (pose - start_pose).any()
DiffersFromStart(pose, start_pose) == \E c \in 1 .. 4 : pose.v[c] # start_pose[c] * pose.den

\* Lines 32-43: the result of calculate_spider_body_path: the path, or the
\* TypeError of dividing a float by the property object of line 37.
CalculateSpiderBodyPath(start_pose, goal_pose) ==
    IF SquaredDistanceToTravel(start_pose, goal_pose) = 0
    THEN [raised |-> "none", path |-> <<[v |-> start_pose, den |-> 1]>>]
    ELSE IF MAX_LINEAR_STEP.isProperty
         THEN [raised |-> "TypeError", path |-> <<>>]
         ELSE [raised |-> "none",
               path |-> <<[v |-> start_pose, den |-> 1]>> \o
                        SelectSeq(LinearPath(start_pose, goal_pose,
                                      NumberOfSteps(SquaredDistanceToTravel(start_pose, goal_pose),
                                                    MAX_LINEAR_STEP.fget)),
                                  LAMBDA pose : DiffersFromStart(pose, start_pose))]

\* calculate_spider_body_path is called with a start and a goal pose.
BodyPathInit ==
    /\ \E start_pose \in PathStarts, goal_pose \in PathGoals :
          planner = [pc |-> "called", start_pose |-> start_pose, goal_pose |-> goal_pose,
                     raised |-> "none", path |-> <<>>]
    /\ qDqDdBuffer = [qD |-> ZeroLegs, qDd |-> ZeroLegs]
    /\ locker = "free"
    /\ bus = [ctrl |-> "none", caller |-> "none"]
    /\ ctl = ControllerFrame
    /\ call = Idle("none")
    /\ gripCmd = [l \in LEGS_IDS |-> "none"]
    /\ receivedMessage = INIT_RESPONSE
    /\ stopFlag = FALSE
    /\ hist = NoHistory
    /\ comm = NoComm

\* Lines 32-43: the call returns its path or raises.
BodyPathReturn ==
    /\ planner.pc = "called"
    /\ LET result == CalculateSpiderBodyPath(planner.start_pose, planner.goal_pose)
       IN  planner' = [planner EXCEPT !.pc = IF result.raised = "none" THEN "returned" ELSE "raised",
                                      !.raised = result.raised,
                                      !.path = result.path]
    /\ UNCHANGED <<qDqDdBuffer, locker, bus, ctl, call, gripCmd, receivedMessage, stopFlag, hist, comm>>

BodyPathNext == BodyPathReturn

SpecBodyPath == BodyPathInit /\ [][BodyPathNext]_vars

----------------------------------------------------------------------------
(* The planner: the start-pose correction of modified_walking_instructions  *)
(* (pathplanner.py, lines 163-186), in the plane of the wall.  Lengths are   *)
(* in units of the correction offset (0.005 m).                              *)

\* Leg-length limit 0.58 m (spider.py) and the over-extension length 0.6 m of
\* line 177, in units of 0.005 m; the counter limit of line 176.
LEG_LENGTH_MAX_LIMIT == 116
OverExtensionLength == 120
CounterLimit == 100

\* Positions of the legs' bases as seen from the body's centre (body radius
\* 0.15 m, legs 72 degrees apart, leg 0 on top, legs 2 and 3 below).
BasesOffsets == [l \in LEGS_IDS |->
    CASE l = 0 -> <<0, 30>>
      [] l = 1 -> <<-29, 9>>
      [] l = 2 -> <<-18, -24>>
      [] l = 3 -> <<18, -24>>
      [] l = 4 -> <<29, 9>>]

\* Held leg positions: leg 0 held up above its base, legs 2 and 3 held down
\* below theirs, legs 1 and 4 held 80 units to the side.
HeldLegsPositions(up, down) == [l \in LEGS_IDS |->
    CASE l = 0 -> <<0, 30 + up>>
      [] l = 1 -> <<-109, 9>>
      [] l = 2 -> <<-18, -24 - down>>
      [] l = 3 -> <<18, -24 - down>>
      [] l = 4 -> <<109, 9>>]

\* The held positions modified_walking_instructions is called with.
StartLegsPositionsInputs ==
    {HeldLegsPositions(60, 60), HeldLegsPositions(117, 61), HeldLegsPositions(139, 92),
     HeldLegsPositions(98, 139), HeldLegsPositions(96, 138)}

\* Line 165: the mean of the held positions (x and y).
MeanPosition(positions) ==
    <<(positions[0][1] + positions[1][1] + positions[2][1] + positions[3][1] + positions[4][1]) \div 5,
      (positions[0][2] + positions[1][2] + positions[2][2] + positions[3][2] + positions[4][2]) \div 5>>

\* Lines 172-175: the square of every leg's length from its base to its held position.
PotentialLegsLengthsSquared(positions, start_pose) ==
    [l \in LEGS_IDS |->
        (positions[l][1] - (start_pose[1] + BasesOffsets[l][1]))
           * (positions[l][1] - (start_pose[1] + BasesOffsets[l][1]))
        + (positions[l][2] - (start_pose[2] + BasesOffsets[l][2]))
           * (positions[l][2] - (start_pose[2] + BasesOffsets[l][2]))]

\* Line 181: the legs longer than the limit.
OverExtendedLegsIds(lengths_squared) ==
    {l \in LEGS_IDS : lengths_squared[l] > LEG_LENGTH_MAX_LIMIT * LEG_LENGTH_MAX_LIMIT}

\* A correction loop that leaves only when no leg is over-extended.
LeavesLoopWhenFeasible(over_extended_legs_ids, counter) == over_extended_legs_ids = {}

\* Line 176: no leg over-extended, or the counter is past its limit.
LeavesLoop(over_extended_legs_ids, counter) ==
    over_extended_legs_ids = {} \/ counter > CounterLimit

\* Line 177: some leg is longer than 0.6 m.
Aborts(lengths_squared) ==
    \E l \in LEGS_IDS : lengths_squared[l] > OverExtensionLength * OverExtensionLength

\* Lines 182-185: the direction of the nudge along y.
NudgeDirection(over_extended_legs_ids) ==
    IF 2 \in over_extended_legs_ids \/ 3 \in over_extended_legs_ids THEN -1 ELSE 1

\* Lines 163-170: modified_walking_instructions is called; nudges counts the
\* nudges made, directions records their directions.
CorrectionInit ==
    /\ \E positions \in StartLegsPositionsInputs :
          planner = [pc |-> "loop", start_legs_positions |-> positions,
                     start_pose |-> MeanPosition(positions), counter |-> 0,
                     nudges |-> 0, directions |-> {}]
    /\ qDqDdBuffer = [qD |-> ZeroLegs, qDd |-> ZeroLegs]
    /\ locker = "free"
    /\ bus = [ctrl |-> "none", caller |-> "none"]
    /\ ctl = ControllerFrame
    /\ call = Idle("none")
    /\ gripCmd = [l \in LEGS_IDS |-> "none"]
    /\ receivedMessage = INIT_RESPONSE
    /\ stopFlag = FALSE
    /\ hist = NoHistory
    /\ comm = NoComm

\* Lines 171-186: one iteration of the correction loop: it leaves the loop
\* (returning False, or going on to line 189 with the pose) or nudges the pose.
CorrectionStep ==
    /\ planner.pc = "loop"
    /\ LET lengths_squared == PotentialLegsLengthsSquared(planner.start_legs_positions, planner.start_pose)
           over == OverExtendedLegsIds(lengths_squared)
       IN  planner' =
              IF LeavesLoop(over, planner.counter)
              THEN [planner EXCEPT !.pc = IF Aborts(lengths_squared) THEN "aborted" ELSE "proceeds"]
              ELSE [planner EXCEPT !.start_pose[2] = planner.start_pose[2] + NudgeDirection(over),
                                   !.counter = planner.counter + 1,
                                   !.nudges = planner.nudges + 1,
                                   !.directions = planner.directions \cup {NudgeDirection(over)}]
    /\ UNCHANGED <<qDqDdBuffer, locker, bus, ctl, call, gripCmd, receivedMessage, stopFlag, hist, comm>>

CorrectionNext == CorrectionStep

SpecCorrection == CorrectionInit /\ [][CorrectionNext]_vars

----------------------------------------------------------------------------
(* The planner: _get_legs_roles (pathplanner.py, lines 213-235).  numpy      *)
(* arrays are sequences; numpy's positions count from 0, so position p of   *)
(* an array is element p + 1 of its sequence.                               *)

\* 1000 * cos of a multiple of 18 degrees.
Cos18(m) ==
    LET k == m % 20
        q == IF k <= 10 THEN k ELSE 20 - k
    IN  CASE q = 0 -> 1000 [] q = 1 -> 951 [] q = 2 -> 809 [] q = 3 -> 588 [] q = 4 -> 309
          [] q = 5 -> 0 [] q = 6 -> -309 [] q = 7 -> -588 [] q = 8 -> -809 [] q = 9 -> -951
          [] q = 10 -> -1000

\* 1000 * sin of a multiple of 18 degrees.
Sin18(m) == Cos18(m + 15)

\* The anchors of the five legs around the origin (spider.py: leg 0 at 90
\* degrees, the next legs 72 degrees apart), turned by yaw * 18 degrees.
AnchorsPositions(radius, yaw) ==
    [l \in LEGS_IDS |-> <<radius * Cos18(5 + 4 * l + yaw), radius * Sin18(5 + 4 * l + yaw)>>]

\* The yaws (multiples of 36 degrees: no anchor level with the origin) and
\* the radii of the anchors the function is called with.
RolesYaws == {0, 2, 4, 6, 8, 10, 12, 14, 16, 18}
RolesRadii == {1, 2, 3, 4}

\* An ascending array of the members of a set (np.where(...)[0]).
RECURSIVE Ascending(_)
Ascending(S) ==
    IF S = {} THEN <<>>
    ELSE LET m == CHOOSE x \in S : \A y \in S : x <= y
         IN  <<m>> \o Ascending(S \ {m})

\* arr[idxs]: the elements of arr at the 0-based positions idxs; IndexError
\* when a position is outside arr.
Take(arr, idxs) ==
    IF \E k \in 1 .. Len(idxs) : idxs[k] >= Len(arr)
    THEN [raised |-> "IndexError", arr |-> <<>>]
    ELSE [raised |-> "none", arr |-> [k \in 1 .. Len(idxs) |-> arr[idxs[k] + 1]]]

\* np.delete(arr, idxs): arr without the elements at the 0-based positions idxs.
Delete(arr, idxs) ==
    Ascending({arr[k] : k \in {j \in 1 .. Len(arr) : (j - 1) \notin Range(idxs)}})

\* np.where(x[legs] == x[legs].min())[0] and the same for max: the 0-based
\* positions in legs of the legs with the least (greatest) x.
WhereMinX(legs, positions) ==
    Ascending({k - 1 : k \in {j \in 1 .. Len(legs) :
        \A i \in 1 .. Len(legs) : positions[legs[j]][1] <= positions[legs[i]][1]}})

WhereMaxX(legs, positions) ==
    Ascending({k - 1 : k \in {j \in 1 .. Len(legs) :
        \A i \in 1 .. Len(legs) : positions[legs[j]][1] >= positions[legs[i]][1]}})

NoRoles == [raised |-> "none", upper_left_leg |-> <<>>, upper_right_leg |-> <<>>,
            upper_middle_leg |-> <<>>, lower_left_leg |-> <<>>, lower_right_leg |-> <<>>]

\* Lines 223-235.  The min and max of an empty array raise ValueError.
GetLegsRoles(legs_bases_positions, pose) ==
    LET upper_legs == Ascending({l \in LEGS_IDS : legs_bases_positions[l][2] > pose[2]})
        upper_left_leg_id == WhereMinX(upper_legs, legs_bases_positions)
        upper_right_leg_id == WhereMaxX(upper_legs, legs_bases_positions)
        upper_middle_leg == Take(upper_legs, Delete(upper_legs, upper_left_leg_id \o upper_right_leg_id))
        lower_legs == Delete(Ascending(LEGS_IDS), upper_legs)
    IN  IF upper_legs = <<>> THEN [NoRoles EXCEPT !.raised = "ValueError"]
        ELSE IF upper_middle_leg.raised # "none" THEN [NoRoles EXCEPT !.raised = upper_middle_leg.raised]
        ELSE IF lower_legs = <<>> THEN [NoRoles EXCEPT !.raised = "ValueError"]
        ELSE [raised |-> "none",
              upper_left_leg |-> Take(upper_legs, upper_left_leg_id).arr,
              upper_right_leg |-> Take(upper_legs, upper_right_leg_id).arr,
              upper_middle_leg |-> upper_middle_leg.arr,
              lower_left_leg |-> Take(lower_legs, WhereMinX(lower_legs, legs_bases_positions)).arr,
              lower_right_leg |-> Take(lower_legs, WhereMaxX(lower_legs, legs_bases_positions)).arr]

\* _get_legs_roles is about to be called with anchors around the origin.
RolesInit ==
    /\ \E radius \in RolesRadii, yaw \in RolesYaws :
          planner = [pc |-> "called", legs_bases_positions |-> AnchorsPositions(radius, yaw),
                     pose |-> <<0, 0>>, yaw |-> yaw, roles |-> NoRoles, again |-> NoRoles]
    /\ qDqDdBuffer = [qD |-> ZeroLegs, qDd |-> ZeroLegs]
    /\ locker = "free"
    /\ bus = [ctrl |-> "none", caller |-> "none"]
    /\ ctl = ControllerFrame
    /\ call = Idle("none")
    /\ gripCmd = [l \in LEGS_IDS |-> "none"]
    /\ receivedMessage = INIT_RESPONSE
    /\ stopFlag = FALSE
    /\ hist = NoHistory
    /\ comm = NoComm

\* The call returns (or raises).
RolesReturn ==
    /\ planner.pc = "called"
    /\ planner' = [planner EXCEPT !.pc = "returned",
                                  !.roles = GetLegsRoles(planner.legs_bases_positions, planner.pose)]
    /\ UNCHANGED <<qDqDdBuffer, locker, bus, ctl, call, gripCmd, receivedMessage, stopFlag, hist, comm>>

\* A second call with the same input returns (or raises).
RolesReturnAgain ==
    /\ planner.pc = "returned"
    /\ planner' = [planner EXCEPT !.pc = "repeated",
                                  !.again = GetLegsRoles(planner.legs_bases_positions, planner.pose)]
    /\ UNCHANGED <<qDqDdBuffer, locker, bus, ctl, call, gripCmd, receivedMessage, stopFlag, hist, comm>>

RolesNext == RolesReturn \/ RolesReturnAgain

SpecRoles == RolesInit /\ [][RolesNext]_vars

----------------------------------------------------------------------------
(* The planner: the per-leg filtering of the pins in                         *)
(* calculate_selected_pins_over_max_y_distance (pathplanner.py, lines 86-96). *)
(* Lengths are in units of 0.05 m; a pin is given by its offset from the      *)
(* leg's base, the pose has no yaw.                                           *)

\* spider.py, line 112: the least and the greatest leg length (0.15 m and
\* 0.45 m) and the greatest angle from the ideal leg vector (degrees).
CONSTRAINS == <<3, 9, 60>>

\* spider.py: 1000 * the ideal (radial) direction of a leg.
IDEAL_LEG_VECTORS == [l \in LEGS_IDS |-> <<Cos18(5 + 4 * l), Sin18(5 + 4 * l)>>]

\* The offsets of the pins from the leg's base.
PinCoordinates == -10 .. 10
PinsOffsets == PinCoordinates \X PinCoordinates

NormSquared(v) == v[1] * v[1] + v[2] * v[2]

\* Line 89: CONSTRAINS[0] < norm(leg_base_position - pin) < CONSTRAINS[1].
WithinLengths(pin) ==
    /\ CONSTRAINS[1] * CONSTRAINS[1] < NormSquared(pin)
    /\ NormSquared(pin) < CONSTRAINS[2] * CONSTRAINS[2]

\* Lines 91-95: the angle between the ideal leg vector and the pin is below
\* 60 degrees (its cosine is above 1/2).
WithinAngle(idx, pin) ==
    LET ideal == IDEAL_LEG_VECTORS[idx]
        dot == ideal[1] * pin[1] + ideal[2] * pin[2]
    IN  dot > 0 /\ 4 * dot * dot > NormSquared(ideal) * NormSquared(pin)

\* Lines 88-101: the pin is appended to potential_pins_for_leg.
IsPotentialPin(idx, pin) == WithinLengths(pin) /\ WithinAngle(idx, pin)

\* A pin is about to be filtered for a leg.
FilterInit ==
    /\ \E idx \in LEGS_IDS, pin \in PinsOffsets :
          planner = [pc |-> "pin", idx |-> idx, pin |-> pin, potential |-> FALSE]
    /\ qDqDdBuffer = [qD |-> ZeroLegs, qDd |-> ZeroLegs]
    /\ locker = "free"
    /\ bus = [ctrl |-> "none", caller |-> "none"]
    /\ ctl = ControllerFrame
    /\ call = Idle("none")
    /\ gripCmd = [l \in LEGS_IDS |-> "none"]
    /\ receivedMessage = INIT_RESPONSE
    /\ stopFlag = FALSE
    /\ hist = NoHistory
    /\ comm = NoComm

\* One pass of the loop of line 88.
FilterPin ==
    /\ planner.pc = "pin"
    /\ planner' = [planner EXCEPT !.pc = "filtered",
                                  !.potential = IsPotentialPin(planner.idx, planner.pin)]
    /\ UNCHANGED <<qDqDdBuffer, locker, bus, ctl, call, gripCmd, receivedMessage, stopFlag, hist, comm>>

FilterNext == FilterPin

SpecFilter == FilterInit /\ [][FilterNext]_vars

----------------------------------------------------------------------------
(* The checks of the lengths of the arrays given to moveLegs (controllers.py, *)
(* lines 128-141), moveLegsWrapper (lines 204-211) and                        *)
(* platformInverseKinematics (calculations.py, lines 116-117).                *)

\* The numbers of trajectories, velocities, goal positions, durations and
\* leg positions a call is given.
ArgumentsCounts == 1 .. 3

\* moveLegs, lines 130-141: what the call does with n leg ids, t trajectories
\* and v velocities before the loop of line 157: it raises ValueError (line
\* 131), raises IndexError in the loop of line 140 (trajectories[idx] or
\* velocities[idx] past the end), or goes on ("none").
MoveLegsArguments(n, t, v) ==
    IF n # t /\ n # v THEN "ValueError"
    ELSE IF t < n \/ v < n THEN "IndexError"
    ELSE "none"

\* moveLegsWrapper, lines 206-207, with n leg ids, g goal positions and d durations.
MoveLegsWrapperArguments(n, g, d) ==
    IF n # g \/ n # d THEN "ValueError" ELSE "none"

\* platformInverseKinematics, lines 116-117, with n leg ids and p positions.
PlatformInverseKinematicsArguments(n, p) ==
    IF n # p THEN "ValueError" ELSE "none"

\* moveLegs called with any numbers of trajectories and velocities (all the
\* trajectories of one length, no gripper commands).
CallMoveLegsArguments ==
    /\ call.pc = "idle"
    /\ \E legsIds \in {<<0>>, <<1, 3>>}, t \in ArgumentsCounts, v \in ArgumentsCounts,
          len \in MinLen .. MaxLen :
          LET n == Len(legsIds)
              raised == MoveLegsArguments(n, t, v)
          IN  /\ call' = IF raised # "none" THEN Idle(raised)
                         ELSE EnterMoveLegs([Idle("none") EXCEPT !.op = "moveLegs"], legsIds,
                                            [k \in 1 .. n |-> JointTrajectory(len, Zero3)], <<>>)
              /\ hist' = [NoHistory EXCEPT !.op = "moveLegs", !.lengths = <<n, t, v>>]
    /\ bus' = [bus EXCEPT !.caller = BusOf(call')]
    /\ UNCHANGED <<qDqDdBuffer, locker, ctl, gripCmd, receivedMessage, stopFlag, planner, comm>>

\* moveLegsWrapper called with any numbers of goal positions and durations
\* (readLegs True, no gripper commands).
CallMoveLegsWrapperArguments ==
    /\ call.pc = "idle"
    /\ \E legsIds \in {<<0>>, <<1, 3>>}, g \in ArgumentsCounts, d \in ArgumentsCounts :
          LET n == Len(legsIds)
              raised == MoveLegsWrapperArguments(n, g, d)
          IN  /\ call' = IF raised # "none" THEN Idle(raised)
                         ELSE EnterWrapper([Idle("none") EXCEPT !.op = "moveLegsWrapper"],
                                           legsIds, <<>>, "bezier")
              /\ hist' = [NoHistory EXCEPT !.op = "moveLegsWrapper", !.lengths = <<n, g, d>>]
    /\ bus' = [bus EXCEPT !.caller = BusOf(call')]
    /\ UNCHANGED <<qDqDdBuffer, locker, ctl, gripCmd, receivedMessage, stopFlag, planner, comm>>

\* platformInverseKinematics called with any number of leg positions; it
\* touches no bus and returns the joints' values ("joints") or raises.
CallPlatformInverseKinematics ==
    /\ call.pc = "idle"
    /\ \E legsIds \in {<<0>>, <<1, 3>>}, p \in ArgumentsCounts :
          LET n == Len(legsIds)
              raised == PlatformInverseKinematicsArguments(n, p)
          IN  /\ call' = IF raised # "none" THEN Idle(raised) ELSE Idle("joints")
              /\ hist' = [NoHistory EXCEPT !.op = "platformInverseKinematics", !.lengths = <<n, p>>]
    /\ bus' = [bus EXCEPT !.caller = BusOf(call')]
    /\ UNCHANGED <<qDqDdBuffer, locker, ctl, gripCmd, receivedMessage, stopFlag, planner, comm>>

ArgumentsNext ==
    \/ CallMoveLegsArguments
    \/ CallMoveLegsWrapperArguments
    \/ CallPlatformInverseKinematics
    \/ MoveLegsRead
    \/ MoveLegsWrite
    \/ WrapperRead

SpecArguments == Init /\ [][ArgumentsNext]_vars

----------------------------------------------------------------------------
(* GripperController: the handshake, the reader thread and the methods that  *)
(* read the received message (controllers.py, lines 397-516).                *)

\* "init" messages written and not yet answered, and lines sent by the
\* microcontroller and not yet read, that the link holds at most.
MaxInits == 2
MaxLines == 2

\* __init__, lines 410-419: the received message is empty, the reader thread
\* is started and handshake is entered.
GripperInit ==
    /\ comm = [NoComm EXCEPT !.reader = "sleep", !.main = "send", !.op = "handshake"]
    /\ receivedMessage = <<>>
    /\ planner = NoPlanner
    /\ qDqDdBuffer = [qD |-> ZeroLegs, qDd |-> ZeroLegs]
    /\ locker = "free"
    /\ bus = [ctrl |-> "none", caller |-> "none"]
    /\ ctl = ControllerFrame
    /\ call = Idle("none")
    /\ gripCmd = [l \in LEGS_IDS |-> "none"]
    /\ stopFlag = FALSE
    /\ hist = NoHistory

\* readData, lines 432 and 436: the reader takes the lock.
ReadDataLock ==
    /\ comm.reader = "sleep"
    /\ comm.locker = "free"
    /\ comm' = [comm EXCEPT !.locker = "reader", !.reader = "readline"]
    /\ UNCHANGED <<qDqDdBuffer, locker, bus, ctl, call, gripCmd, receivedMessage, stopFlag, hist, planner>>

\* readData, lines 433-437: readline under the lock; with a whole line read the
\* loop of line 434 is left, with nothing read the reader sleeps and reads again.
ReadDataReadline ==
    /\ comm.reader = "readline"
    /\ comm' = IF comm.lines = <<>>
               THEN [comm EXCEPT !.locker = "free", !.reader = "sleep"]
               ELSE [comm EXCEPT !.locker = "free", !.reader = "store",
                                 !.msg = Head(comm.lines), !.lines = Tail(comm.lines)]
    /\ UNCHANGED <<qDqDdBuffer, locker, bus, ctl, call, gripCmd, receivedMessage, stopFlag, hist, planner>>

\* readData, line 439: the line is stored as the received message.
ReadDataStore ==
    /\ comm.reader = "store"
    /\ receivedMessage' = comm.msg
    /\ comm' = [comm EXCEPT !.reader = "sleep", !.msg = <<>>]
    /\ UNCHANGED <<qDqDdBuffer, locker, bus, ctl, call, gripCmd, stopFlag, hist, planner>>

\* sendData, line 449: the sender takes the lock (an "init" is sent once the
\* link has room for it).
SendDataLock ==
    /\ comm.main = "send"
    /\ comm.locker = "free"
    /\ comm.op = "handshake" => comm.inits < MaxInits
    /\ comm' = [comm EXCEPT !.locker = "main", !.main = "write"]
    /\ UNCHANGED <<qDqDdBuffer, locker, bus, ctl, call, gripCmd, receivedMessage, stopFlag, hist, planner>>

\* sendData, line 450: the message is written under the lock ("init" in
\* handshake, the open command of leg 0 in openGrippersAndWait).
SendDataWrite ==
    /\ comm.main = "write"
    /\ comm' = [comm EXCEPT !.locker = "free",
                            !.main = IF comm.op = "handshake" THEN "poll" ELSE "waitLock",
                            !.inits = IF comm.op = "handshake" THEN comm.inits + 1 ELSE comm.inits]
    /\ gripCmd' = IF comm.op = "handshake" THEN gripCmd ELSE [gripCmd EXCEPT ![0] = OPEN_COMMAND]
    /\ UNCHANGED <<qDqDdBuffer, locker, bus, ctl, call, receivedMessage, stopFlag, hist, planner>>

\* handshake, lines 512-516: one test of the received message; handshake
\* returns when it is the init response, otherwise "init" is sent again.
HandshakePoll ==
    /\ comm.main = "poll"
    /\ comm' = IF receivedMessage = INIT_RESPONSE
               THEN [comm EXCEPT !.main = "idle", !.op = "none"]
               ELSE [comm EXCEPT !.main = "send"]
    /\ UNCHANGED <<qDqDdBuffer, locker, bus, ctl, call, gripCmd, receivedMessage, stopFlag, hist, planner>>

\* openGrippersAndWait([0]) called, lines 468-469.
CallOpenGrippersAndWait ==
    /\ comm.main = "idle"
    /\ gripCmd[0] # OPEN_COMMAND
    /\ comm' = [comm EXCEPT !.main = "send", !.op = "openGrippersAndWait"]
    /\ UNCHANGED <<qDqDdBuffer, locker, bus, ctl, call, gripCmd, receivedMessage, stopFlag, hist, planner>>

\* openGrippersAndWait, line 472: the lock is taken.
WaitGrippersLock ==
    /\ comm.main = "waitLock"
    /\ comm.locker = "free"
    /\ comm' = [comm EXCEPT !.locker = "main", !.main = "waitRead"]
    /\ UNCHANGED <<qDqDdBuffer, locker, bus, ctl, call, gripCmd, receivedMessage, stopFlag, hist, planner>>

\* An openGrippersAndWait that keeps the lock while it waits for the next
\* received message.
WaitGrippersReadKeepingLock ==
    /\ comm.main = "waitRead"
    /\ comm' = IF ConfirmedOpen(receivedMessage, <<0>>) = {1}
               THEN [comm EXCEPT !.locker = "free", !.main = "idle", !.op = "none"]
               ELSE [comm EXCEPT !.main = "waitLock"]
    /\ UNCHANGED <<qDqDdBuffer, locker, bus, ctl, call, gripCmd, receivedMessage, stopFlag, hist, planner>>

\* openGrippersAndWait, lines 473-478: the received message is read under the
\* lock; the method returns when it shows the gripper open.
WaitGrippersRead ==
    /\ comm.main = "waitRead"
    /\ comm' = IF ConfirmedOpen(receivedMessage, <<0>>) = {1}
               THEN [comm EXCEPT !.locker = "free", !.main = "idle", !.op = "none"]
               ELSE [comm EXCEPT !.locker = "free", !.main = "waitLock"]
    /\ UNCHANGED <<qDqDdBuffer, locker, bus, ctl, call, gripCmd, receivedMessage, stopFlag, hist, planner>>

\* getIdsOfAttachedLegs (and getSwitchesStates), lines 485-497: `with
\* self.lock` names an attribute the controller does not have.
CallGetIdsOfAttachedLegs ==
    /\ comm.main = "idle"
    /\ comm.raised = "none"
    /\ comm' = [comm EXCEPT !.raised = "AttributeError"]
    /\ UNCHANGED <<qDqDdBuffer, locker, bus, ctl, call, gripCmd, receivedMessage, stopFlag, hist, planner>>

\* The microcontroller answers an "init" with the init response.
McuAnswer ==
    /\ comm.inits > 0
    /\ Len(comm.lines) < MaxLines
    /\ comm' = [comm EXCEPT !.inits = comm.inits - 1,
                            !.lines = Append(comm.lines, INIT_RESPONSE),
                            !.answered = TRUE]
    /\ UNCHANGED <<qDqDdBuffer, locker, bus, ctl, call, gripCmd, receivedMessage, stopFlag, hist, planner>>

\* The microcontroller sends a status line.
McuStatus ==
    /\ Len(comm.lines) < MaxLines
    /\ comm' = [comm EXCEPT !.lines = Append(comm.lines, StatusLine(gripCmd))]
    /\ UNCHANGED <<qDqDdBuffer, locker, bus, ctl, call, gripCmd, receivedMessage, stopFlag, hist, planner>>

ReaderNext == ReadDataLock \/ ReadDataReadline \/ ReadDataStore

SenderNext ==
    \/ SendDataLock
    \/ SendDataWrite
    \/ HandshakePoll
    \/ CallOpenGrippersAndWait
    \/ WaitGrippersLock
    \/ WaitGrippersRead
    \/ CallGetIdsOfAttachedLegs

GripperNext == ReaderNext \/ SenderNext \/ McuAnswer \/ McuStatus

SpecGripper == GripperInit /\ [][GripperNext]_vars

\* Both threads keep running and the microcontroller answers every "init".
SpecGripperFair ==
    SpecGripper /\ WF_vars(ReaderNext) /\ WF_vars(SenderNext) /\ WF_vars(McuAnswer)

----------------------------------------------------------------------------
(* GripperController.getIdsOfAttachedLegs (controllers.py, lines 491-505)    *)
(* against every received message.                                           *)

\* The characters of a status line.
StatusCharacters == {"0", "1"}

\* The messages the reader thread may have stored: every status line of
\* RECEIVED_MESSAGE_LENGTH characters, the init response and the empty string.
ReceivedMessages ==
    [1 .. RECEIVED_MESSAGE_LENGTH -> StatusCharacters] \cup {INIT_RESPONSE, <<>>}

\* The handshake is over and some message has been received.
AttachedInit ==
    /\ receivedMessage \in ReceivedMessages
    /\ comm = NoComm
    /\ planner = NoPlanner
    /\ qDqDdBuffer = [qD |-> ZeroLegs, qDd |-> ZeroLegs]
    /\ locker = "free"
    /\ bus = [ctrl |-> "none", caller |-> "none"]
    /\ ctl = ControllerFrame
    /\ call = Idle("none")
    /\ gripCmd = [l \in LEGS_IDS |-> "none"]
    /\ stopFlag = FALSE
    /\ hist = NoHistory

\* getIdsOfAttachedLegs is called and ends: the frame of the caller holds what
\* it raised or the ids it returned.
CallGetIdsOfAttachedLegsReturn ==
    /\ call.pc = "idle"
    /\ hist.op = "none"
    /\ LET r == GetIdsOfAttachedLegs(receivedMessage)
       IN  call' = [Idle(IF r.raised THEN "AttributeError" ELSE "ids")
                       EXCEPT !.legsIds = Ascending(r.ids)]
    /\ hist' = [NoHistory EXCEPT !.op = "getIdsOfAttachedLegs"]
    /\ UNCHANGED <<qDqDdBuffer, locker, bus, ctl, gripCmd, receivedMessage, stopFlag, planner, comm>>

AttachedNext == CallGetIdsOfAttachedLegsReturn

SpecAttached == AttachedInit /\ [][AttachedNext]_vars

----------------------------------------------------------------------------
(* getSpiderPose (calculations/kinematics.py, lines 283-309, and             *)
(* MatrixCalculator.getSpiderPose, calculations.py, lines 521-544): the       *)
(* combinations of three legs a candidate pose is computed from.              *)

\* The two versions of the function in the repository.
KinematicsVersions == {"calculations/kinematics.py", "calculations.py"}

\* Coordinates of the pins the legs stand on (x and y, in pin spacings).
FootholdCoordinates == 0 .. 2
Footholds == FootholdCoordinates \X FootholdCoordinates

\* Legs given to getSpiderPose and their footholds, no two legs on one pin.
PoseLegsInputs == {<<0, 1, 2>>, <<0, 1, 2, 4>>}
FootholdsInputs(legsIds) ==
    {f \in [1 .. Len(legsIds) -> Footholds] :
        \A i, j \in 1 .. Len(legsIds) : i # j => f[i] # f[j]}

\* itt.combinations(legsIds, 3), as sets of positions in legsIds (subsetIdxs).
Combinations3(legsIds) == {S \in SUBSET (1 .. Len(legsIds)) : Cardinality(S) = 3}

\* np.diff(column).any(): the values of the column are not all equal.
DiffAny(values) == Cardinality(values) > 1

\* kinematics.py, line 300: the combination is skipped unless both the x and
\* the y coordinates of its footholds differ; calculations.py has no such test.
SkipsCombination(version, positions, subsetIdxs) ==
    /\ version = "calculations/kinematics.py"
    /\ ~(/\ DiffAny({positions[i][1] : i \in subsetIdxs})
         /\ DiffAny({positions[i][2] : i \in subsetIdxs}))

\* The combinations whose candidate pose is appended to poses; the function
\* returns the mean of these candidates.
GetSpiderPose(version, legsIds, positions) ==
    {S \in Combinations3(legsIds) : ~SkipsCombination(version, positions, S)}

\* getSpiderPose is about to be called.
SpiderPoseInit ==
    /\ \E version \in KinematicsVersions, legsIds \in PoseLegsInputs :
          \E positions \in FootholdsInputs(legsIds) :
             planner = [pc |-> "called", version |-> version, legsIds |-> legsIds,
                        legsGlobalPositions |-> positions, poses |-> {}]
    /\ comm = NoComm
    /\ receivedMessage = INIT_RESPONSE
    /\ qDqDdBuffer = [qD |-> ZeroLegs, qDd |-> ZeroLegs]
    /\ locker = "free"
    /\ bus = [ctrl |-> "none", caller |-> "none"]
    /\ ctl = ControllerFrame
    /\ call = Idle("none")
    /\ gripCmd = [l \in LEGS_IDS |-> "none"]
    /\ stopFlag = FALSE
    /\ hist = NoHistory

\* The call returns the mean of the candidates of planner.poses.
SpiderPoseReturn ==
    /\ planner.pc = "called"
    /\ planner' = [planner EXCEPT !.pc = "returned",
                      !.poses = GetSpiderPose(planner.version, planner.legsIds,
                                              planner.legsGlobalPositions)]
    /\ UNCHANGED <<qDqDdBuffer, locker, bus, ctl, call, gripCmd, receivedMessage, stopFlag, hist, comm>>

SpiderPoseNext == SpiderPoseReturn

SpecSpiderPose == SpiderPoseInit /\ [][SpiderPoseNext]_vars

----------------------------------------------------------------------------
(* platformForwardKinematics (calculations/kinematics.py, lines 100-162, and *)
(* Kinematics.platformForwardKinematics, calculations.py, lines 143-203):     *)
(* what it returns for the numbers of leg ids, footholds and leg poses given. *)

\* The numbers of leg ids, footholds and leg poses a call is given.
LegsCounts == 0 .. NUMBER_OF_LEGS

\* The pose returned from three legs: x, y, z, roll, pitch, yaw (the values
\* themselves are not computed here).
Xyzrpy == <<"x", "y", "z", "roll", "pitch", "yaw">>

\* A platformForwardKinematics that tests the number of leg ids only.
PlatformForwardKinematicsIdsOnly(version, legsIds, legsGlobalPositions, legsLocalPoses) ==
    IF legsIds # 3
    THEN [sentinel |-> TRUE, xyzrpy |-> <<>>]
    ELSE [sentinel |-> FALSE, xyzrpy |-> Xyzrpy]

\* Lines 112-114 (143-145 in calculations.py): False unless exactly three of
\* each are given; otherwise the list of line 160 (201).  The arguments are
\* the lengths of the three lists.
PlatformForwardKinematics(version, legsIds, legsGlobalPositions, legsLocalPoses) ==
    IF legsIds # 3 \/ legsGlobalPositions # 3 \/ legsLocalPoses # 3
    THEN [sentinel |-> TRUE, xyzrpy |-> <<>>]
    ELSE [sentinel |-> FALSE, xyzrpy |-> Xyzrpy]

\* platformForwardKinematics is about to be called.
PlatformFkInit ==
    /\ \E version \in KinematicsVersions, n \in LegsCounts, p \in LegsCounts, l \in LegsCounts :
          planner = [pc |-> "called", version |-> version, legsIds |-> n,
                     legsGlobalPositions |-> p, legsLocalPoses |-> l,
                     returned |-> [sentinel |-> FALSE, xyzrpy |-> <<>>]]
    /\ comm = NoComm
    /\ receivedMessage = INIT_RESPONSE
    /\ qDqDdBuffer = [qD |-> ZeroLegs, qDd |-> ZeroLegs]
    /\ locker = "free"
    /\ bus = [ctrl |-> "none", caller |-> "none"]
    /\ ctl = ControllerFrame
    /\ call = Idle("none")
    /\ gripCmd = [l \in LEGS_IDS |-> "none"]
    /\ stopFlag = FALSE
    /\ hist = NoHistory

\* The call returns.
PlatformFkReturn ==
    /\ planner.pc = "called"
    /\ planner' = [planner EXCEPT !.pc = "returned",
                      !.returned = PlatformForwardKinematics(planner.version, planner.legsIds,
                                       planner.legsGlobalPositions, planner.legsLocalPoses)]
    /\ UNCHANGED <<qDqDdBuffer, locker, bus, ctl, call, gripCmd, receivedMessage, stopFlag, hist, comm>>

PlatformFkNext == PlatformFkReturn

SpecPlatformFk == PlatformFkInit /\ [][PlatformFkNext]_vars

----------------------------------------------------------------------------
(* legForwardKinematics and legInverseKinematics (calculations/kinematics.py, *)
(* lines 13-36 and 59-98; Kinematics.legInverseKinematics, calculations.py,   *)
(* lines 63-100).  An angle is a multiple k of t = atan(3/4) (36.87 degrees), *)
(* k in -4 .. 4, or 5 for 180 degrees: the cosines and sines of these angles  *)
(* are exact fractions of 625, so positions are exact.  Lengths are in units  *)
(* of 4 mm, positions in units of 0.032 mm (4 mm / 125).  A sum of two        *)
(* angles is taken as the direction of the product of their directions.       *)

\* spider.py, line 88: L1, L2, L3 = 0.064, 0.3, 0.276 m, in units of 4 mm.
LEGS_DIMENSIONS == <<16, 75, 69>>

\* 625 * cos and 625 * sin of the angle k.
CosT(k) ==
    LET a == IF k < 0 THEN 0 - k ELSE k
    IN  CASE a = 0 -> 625 [] a = 1 -> 500 [] a = 2 -> 175 [] a = 3 -> -220
          [] a = 4 -> -527 [] a = 5 -> -625

SinT(k) ==
    LET a == IF k < 0 THEN 0 - k ELSE k
        s == CASE a = 0 -> 0 [] a = 1 -> 375 [] a = 2 -> 600 [] a = 3 -> 585
               [] a = 4 -> 336 [] a = 5 -> 0
    IN  IF k < 0 THEN 0 - s ELSE s

\* Lines 26-36: the tip's position for joints q (the last column of the matrix).
LegForwardKinematics(q) ==
    LET radial == (LEGS_DIMENSIONS[1] * 625 + LEGS_DIMENSIONS[2] * CosT(q[2])
                      + LEGS_DIMENSIONS[3] * CosT(q[2] + q[3])) \div 25
    IN  <<(CosT(q[1]) * radial) \div 125,
          (radial * SinT(q[1])) \div 125,
          (LEGS_DIMENSIONS[2] * SinT(q[2]) + LEGS_DIMENSIONS[3] * SinT(q[2] + q[3])) \div 5>>

\* math.atan2(y, x): the angle nearest to the direction of (x, y); 0 for the
\* zero vector.
Atan2(y, x) ==
    IF x = 0 /\ y = 0 THEN 0
    ELSE CHOOSE a \in -4 .. 5 :
            \A b \in -4 .. 5 : CosT(a) * x + SinT(a) * y >= CosT(b) * x + SinT(b) * y

\* np.round(v, 4) of the fraction num / (1250 * den), in units of 0.0001.
Round4(num, den) == 8 * (num \div den) + (16 * (num % den) + den) \div (2 * den)

\* math.acos(v) for v in units of 0.0001: the angle in [0, 180] degrees whose
\* cosine is nearest; the argument must be within [-1, 1].
AcosInDomain(v) == -10000 <= v /\ v <= 10000
Acos(v) ==
    CHOOSE a \in 0 .. 5 :
       \A b \in 0 .. 5 :
          (CosT(a) * 16 - v) * (CosT(a) * 16 - v) <= (CosT(b) * 16 - v) * (CosT(b) * 16 - v)

\* The square root of n, rounded down (np.linalg.norm).
Isqrt(n) == CHOOSE s \in 0 .. 46340 : s * s <= n /\ (s + 1) * (s + 1) > n

\* An inverse kinematics that takes the elbow-up solution.
ThirdJointAngleElbowUp(v) == Acos(v)

\* Line 89: q3 = -math.acos(...).
ThirdJointAngle(v) == 0 - Acos(v)

\* Lines 69-98 (77-100 in calculations.py): raised is "none" and q the joints,
\* or the argument of math.acos is outside [-1, 1] and cosine holds it.
LegInverseKinematics(version, endEffectorPosition) ==
    LET L1 == LEGS_DIMENSIONS[1]
        L2 == LEGS_DIMENSIONS[2]
        L3 == LEGS_DIMENSIONS[3]
        x == endEffectorPosition[1]
        y == endEffectorPosition[2]
        z == endEffectorPosition[3]
        q1 == IF version = "calculations/kinematics.py" /\ x < 0
              THEN Atan2(0 - y, 0 - x) ELSE Atan2(y, x)
        secondJointPosition == <<(L1 * CosT(q1)) \div 5, (L1 * SinT(q1)) \div 5, 0>>
        v == <<x - secondJointPosition[1], y - secondJointPosition[2], z>>
        rSquared == v[1] * v[1] + v[2] * v[2] + v[3] * v[3]
        cosine == Round4(rSquared - (L2 * L2 + L3 * L3) * 15625, 25 * L2 * L3)
        q3 == ThirdJointAngle(cosine)
        alphaX == (L2 * 625 + L3 * CosT(q3)) \div 5
        alphaY == IF SinT(q3) >= 0 THEN (L3 * SinT(q3)) \div 5 ELSE (L3 * (0 - SinT(q3))) \div 5
        norm == Isqrt(v[1] * v[1] + v[2] * v[2])
        xy == IF version = "calculations.py" \/ x >= secondJointPosition[1] THEN norm ELSE 0 - norm
        q2 == Atan2((xy * alphaY + z * alphaX) \div 1000, (xy * alphaX - z * alphaY) \div 1000)
    IN  IF AcosInDomain(cosine)
        THEN [raised |-> "none", cosine |-> cosine, q |-> <<q1, q2, q3>>]
        ELSE [raised |-> "math domain error", cosine |-> cosine, q |-> <<>>]

\* Positions of the tip legInverseKinematics is called with, in the plane
\* y = 0 of the leg: reachable ones and ones too far from or too near to the
\* second joint.
TipCoordinates == {-10000, 0, 2000, 2750, 5000, 10000, 15000, 20000, 20125, 25000}
TipPositions == {<<x, 0, z>> : x \in TipCoordinates, z \in TipCoordinates}

NoJoints == [raised |-> "none", cosine |-> 0, q |-> <<>>]

\* legInverseKinematics is about to be called with a position.
InverseInit ==
    /\ \E version \in KinematicsVersions, position \in TipPositions :
          planner = [pc |-> "called", version |-> version, jointsValues |-> <<>>,
                     endEffectorPosition |-> position, returned |-> NoJoints]
    /\ comm = NoComm
    /\ receivedMessage = INIT_RESPONSE
    /\ qDqDdBuffer = [qD |-> ZeroLegs, qDd |-> ZeroLegs]
    /\ locker = "free"
    /\ bus = [ctrl |-> "none", caller |-> "none"]
    /\ ctl = ControllerFrame
    /\ call = Idle("none")
    /\ gripCmd = [l \in LEGS_IDS |-> "none"]
    /\ stopFlag = FALSE
    /\ hist = NoHistory

\* The call returns the joints, or math.acos is given a value outside
\* [-1, 1]: math.acos raises ValueError; compiled by numba (kinematics.py) the
\* call raises or returns not-a-number angles.
InverseReturn ==
    /\ planner.pc = "called"
    /\ LET r == LegInverseKinematics(planner.version, planner.endEffectorPosition)
       IN  \E outcome \in IF r.raised = "none" THEN {"none"}
                          ELSE IF planner.version = "calculations.py" THEN {"ValueError"}
                          ELSE {"ValueError", "nan"} :
              planner' = [planner EXCEPT !.pc = "returned", !.returned = [r EXCEPT !.raised = outcome]]
    /\ UNCHANGED <<qDqDdBuffer, locker, bus, ctl, call, gripCmd, receivedMessage, stopFlag, hist, comm>>

InverseNext == InverseReturn

SpecInverse == InverseInit /\ [][InverseNext]_vars

----------------------------------------------------------------------------
(* legInverseKinematics applied to the tip position legForwardKinematics      *)
(* gives (calculations/kinematics.py).                                        *)

\* Joints' values within the joints' limits, in steps of 36.87 degrees.
JointsValuesInputs ==
    {q \in (-1 .. 1) \X (-2 .. 2) \X (-4 .. 4) : q[2] + q[3] \in -2 .. 2}

\* legForwardKinematics is about to be called with joints' values.
RoundTripInit ==
    /\ \E q \in JointsValuesInputs :
          planner = [pc |-> "forward", version |-> "calculations/kinematics.py",
                     jointsValues |-> q, endEffectorPosition |-> <<>>, returned |-> NoJoints]
    /\ comm = NoComm
    /\ receivedMessage = INIT_RESPONSE
    /\ qDqDdBuffer = [qD |-> ZeroLegs, qDd |-> ZeroLegs]
    /\ locker = "free"
    /\ bus = [ctrl |-> "none", caller |-> "none"]
    /\ ctl = ControllerFrame
    /\ call = Idle("none")
    /\ gripCmd = [l \in LEGS_IDS |-> "none"]
    /\ stopFlag = FALSE
    /\ hist = NoHistory

\* legForwardKinematics returns and legInverseKinematics is called with the
\* tip's position.
ForwardReturn ==
    /\ planner.pc = "forward"
    /\ planner' = [planner EXCEPT !.pc = "called",
                      !.endEffectorPosition = LegForwardKinematics(planner.jointsValues)]
    /\ UNCHANGED <<qDqDdBuffer, locker, bus, ctl, call, gripCmd, receivedMessage, stopFlag, hist, comm>>

RoundTripNext == ForwardReturn \/ InverseReturn

SpecRoundTrip == RoundTripInit /\ [][RoundTripNext]_vars

----------------------------------------------------------------------------
(* The two locks together: VelocityController.locker (controller, lines      *)
(* 44-56, moveLegAsync, lines 70-71) and GripperController.locker (readData, *)
(* sendData, openGrippersAndWait, lines 427-478), with the control-loop      *)
(* thread, the serial reader thread and one caller thread.                   *)

\* The caller thread requests a leg movement when it is in no gripper method.
CallerMoveLegAsync ==
    /\ comm.main = "idle"
    /\ CallMoveLegAsync

\* The caller thread opens a gripper when it is in no movement method.
CallerOpenGrippersAndWait ==
    /\ call.pc = "idle"
    /\ CallOpenGrippersAndWait

\* Both controllers are constructed: the handshake is over (lines 410-419,
\* 507-516), the reader thread runs, the control-loop thread is not started.
LocksInit ==
    /\ comm = [NoComm EXCEPT !.reader = "sleep", !.answered = TRUE]
    /\ receivedMessage = INIT_RESPONSE
    /\ planner = NoPlanner
    /\ qDqDdBuffer = [qD |-> ZeroLegs, qDd |-> ZeroLegs]
    /\ locker = "free"
    /\ bus = [ctrl |-> "none", caller |-> "none"]
    /\ ctl = ControllerFrame
    /\ call = Idle("none")
    /\ gripCmd = [l \in LEGS_IDS |-> "none"]
    /\ stopFlag = FALSE
    /\ hist = NoHistory

LocksNext ==
    \/ initControllerThread
    \/ ControllerBeginRead
    \/ ControllerRead
    \/ ControllerBeginWrite
    \/ ControllerWrite
    \/ CallerMoveLegAsync
    \/ MoveLegAsyncBeginRead
    \/ MoveLegAsyncRead
    \/ ReadDataLock
    \/ ReadDataReadline
    \/ ReadDataStore
    \/ SendDataLock
    \/ SendDataWrite
    \/ CallerOpenGrippersAndWait
    \/ WaitGrippersLock
    \/ WaitGrippersRead
    \/ McuStatus

SpecLocks == LocksInit /\ [][LocksNext]_vars

----------------------------------------------------------------------------
(* Properties. *)

\* C1: once a leg has been requested twice in a row with moveLegAsync, every
\* tick of the control loop that starts afterwards takes a sample of the
\* latest request as that leg's reference position.
C1_ReferenceFromLatestRequest ==
    [][(ctl.pc = "loop" /\ ctl'.pc = "read" /\ call.pc = "idle" /\ hist.asyncN = 2)
          => ctl'.qD[hist.asyncLeg] \in hist.asyncQd]_vars

\* C2: a thread that is inside a bus transaction holds the controller lock.
C2_BusUnderLock ==
    /\ bus.ctrl # "none" => locker = "ctrl"
    /\ bus.caller # "none" => locker = "caller"

\* C3: after a batch write that reported failure the loop that issued it has
\* returned False and is in no bus transaction: the control loop is out of its
\* loop, the caller's moveLegs or movePlatform has returned False.
C3_WriteFailureEndsLoop ==
    /\ ctl.wrote = "failed" => (ctl.pc = "returned" /\ bus.ctrl = "none")
    /\ call.wrote = "failed" => (call.pc = "idle" /\ call.ret = "False" /\ bus.caller = "none")

\* C3, the case: a batch write of the control loop failed, and so did one of
\* a movement of the caller.
C3_BothLoopsFailed ==
    /\ ctl.wrote = "failed"
    /\ call.wrote = "failed"
    /\ hist.op \in {"moveLegs", "movePlatform"}

\* C4: in walk and in moveLegsAndGrabPins the step in which a sub-movement
\* fails returns False from the whole procedure: no further phase or move is
\* started, no bus transaction is open, and no gripper command is sent.
C4_FirstFailureEndsProcedure ==
    [][(/\ hist.op \in {"walk", "moveLegsAndGrabPins"}
        /\ call.pc \in {"writing", "platformWriting"}
        /\ call'.wrote = "failed")
          => (/\ call'.pc = "idle"
              /\ call'.ret = "False"
              /\ bus'.caller = "none"
              /\ gripCmd' = gripCmd)]_vars

\* C4, the case: moveLegsAndGrabPins has returned False after a failed write,
\* and the grippers it had opened are still commanded open.
C4_GrabFailedAfterOpening ==
    /\ hist.op = "moveLegsAndGrabPins"
    /\ call.pc = "idle"
    /\ call.ret = "False"
    /\ call.wrote = "failed"
    /\ \A l \in {1, 3} : gripCmd[l] = OPEN_COMMAND

\* C5: a tick of the control loop that starts while no movement is in progress
\* takes, for every leg a movement has driven, the position that leg was last
\* driven to as its reference position, and zero as its reference velocity.
C5_HoldsLastCommandedPosition ==
    [][(ctl.pc = "loop" /\ ctl'.pc = "read" /\ call.pc = "idle")
          => \A l \in LEGS_IDS :
                hist.target[l] # <<>>
                   => (ctl'.qD[l] = hist.target[l] /\ ctl'.qDd[l] = Zero3)]_vars

\* C6: once the stop flag is set the control loop starts no new tick.
C6_NoTickAfterStop ==
    [][(stopFlag /\ ctl.pc = "loop") => ctl'.pc # "read"]_vars

\* C7 as stated: on tick i of moveLegs every leg that has a sample i is
\* driven by the control law from its sample i.
C7_EveryLegFromSampleOfTick ==
    call.pc = "writing"
       => \A k \in DOMAIN call.legsIds :
             call.i < Len(call.qDs[k])
                => call.qCds[k] = LegCommand(call.qDs[k][call.i + 1].qD, call.qDs[k][call.i + 1].qDd,
                                             call.qA[k], call.prevErrors[k], TimeStepRate)

\* C7: inside moveLegs the references of every given leg are complete before
\* the first tick, and on tick i every leg that has a sample after sample i is
\* driven by the control law from its sample i, while every other leg (on or
\* past its last sample) is commanded zero velocity.
C7_LegsDrivenFromOwnSample ==
    /\ call.pc \in {"open", "wait", "reading", "writing"}
          => /\ DOMAIN call.qDs = DOMAIN call.legsIds
             /\ \A k \in DOMAIN call.qDs : Len(call.qDs[k]) >= MinLen
    /\ call.pc = "writing"
          => \A k \in DOMAIN call.legsIds :
                call.qCds[k] =
                   IF call.i < Len(call.qDs[k]) - 1
                   THEN LegCommand(call.qDs[k][call.i + 1].qD, call.qDs[k][call.i + 1].qDd,
                                   call.qA[k], call.prevErrors[k], TimeStepRate)
                   ELSE Zero3

\* C7, the case: the second tick of a movement of two legs, the first leg on
\* its last sample, the second still with a sample to come.
C7_TwoLegsSecondTick ==
    /\ call.pc = "writing"
    /\ Len(call.legsIds) = 2
    /\ call.i = 1
    /\ Len(call.qDs[1]) = 2
    /\ Len(call.qDs[2]) = 3

C9_LawOnEveryTick ==
    /\ ctl.pc \in {"computed", "write"}
          => \A l \in LEGS_IDS :
                ctl.qCds[l] = LegCommand(ctl.qD[l], ctl.qDd[l], ctl.qA[l], ctl.prevErrors[l],
                                         CONTROLLER_FREQUENCY)
    /\ call.pc \in {"writing", "platformWriting"}
          => \A k \in DOMAIN call.legsIds :
                call.i < Len(call.qDs[k])
                   => call.qCds[k] = LegCommand(call.qDs[k][call.i + 1].qD, call.qDs[k][call.i + 1].qDd,
                                                call.qA[k], call.prevErrors[k], TimeStepRate)

\* C9: the velocity is the control law, with the error of the tick before
\* (zero on the first tick), on every tick of the control loop, and in
\* moveLegs and movePlatform on every tick before the one of the leg's last
\* sample.
C9_LawWhileTracking ==
    /\ ctl.pc \in {"computed", "write"}
          => \A l \in LEGS_IDS :
                ctl.qCds[l] = LegCommand(ctl.qD[l], ctl.qDd[l], ctl.qA[l], ctl.prevErrors[l],
                                         CONTROLLER_FREQUENCY)
    /\ call.pc \in {"writing", "platformWriting"}
          => \A k \in DOMAIN call.legsIds :
                call.i < Len(call.qDs[k]) - 1
                   => call.qCds[k] = LegCommand(call.qDs[k][call.i + 1].qD, call.qDs[k][call.i + 1].qDd,
                                                call.qA[k], call.prevErrors[k], TimeStepRate)

\* C9, the case: the control loop and moveLegs are both past their first tick,
\* each with a nonzero error on the tick before, and the leg is still tracking.
C9_SecondTicks ==
    /\ ctl.pc = "write"
    /\ ctl.prevErrors # ZeroLegs
    /\ call.pc = "writing"
    /\ call.i = 1
    /\ Len(call.qDs[1]) = 3
    /\ call.prevErrors[1] # Zero3

C11_PathFromStartToGoal ==
    planner.pc = "returned"
       => /\ planner.path[1] = [v |-> planner.start_pose, den |-> 1]
          /\ planner.path[Len(planner.path)] = [v |-> planner.goal_pose, den |-> 1]

C13_CorrectionLoopBounded ==
    /\ planner.nudges <= 101
    /\ planner.nudges = planner.counter
    /\ planner.pc = "loop" => ENABLED CorrectionStep

\* C13, the case: the loop was left after 101 nudges that went both ways.
C13_LeftAfterAlternatingNudges ==
    /\ planner.pc \in {"aborted", "proceeds"}
    /\ planner.nudges = 101
    /\ planner.directions = {-1, 1}

\* C14: when the correction does not abort, the pose it goes on with gives no
\* leg a length above the leg-length limit.
C14_ProceedsWithinLimit ==
    planner.pc = "proceeds"
       => \A l \in LEGS_IDS :
             PotentialLegsLengthsSquared(planner.start_legs_positions, planner.start_pose)[l]
                <= 116 * 116

\* C15: for five anchors arranged symmetrically around the origin,
\* _get_legs_roles gives each of the five roles exactly one leg and each leg
\* exactly one role, and a repeated call returns the same assignment.
C15_OneLegPerRole ==
    planner.pc # "called"
       => LET r == planner.roles
              all == r.upper_left_leg \o r.upper_right_leg \o r.upper_middle_leg
                        \o r.lower_left_leg \o r.lower_right_leg
          IN  /\ r.raised = "none"
              /\ Len(r.upper_left_leg) = 1 /\ Len(r.upper_right_leg) = 1
              /\ Len(r.upper_middle_leg) = 1
              /\ Len(r.lower_left_leg) = 1 /\ Len(r.lower_right_leg) = 1
              /\ Range(all) = LEGS_IDS
              /\ planner.pc = "repeated" => planner.again = r

\* C16: a pin exactly at the greatest leg length from the leg's base (and
\* within the angle) is kept as a candidate; a pin farther than the greatest
\* leg length is rejected.
C16_PinAtMaxLengthKept ==
    planner.pc = "filtered"
       => /\ (NormSquared(planner.pin) = 81 /\ WithinAngle(planner.idx, planner.pin))
                => planner.potential
          /\ NormSquared(planner.pin) > 81 => ~planner.potential

\* C17: a call of moveLegs, moveLegsWrapper or platformInverseKinematics
\* given arrays whose lengths differ from the number of leg ids has raised
\* ValueError, with no bus read or write begun and no gripper commanded.
C17_MismatchRaisesValueError ==
    (hist.lengths # <<>> /\ \E k \in DOMAIN hist.lengths : hist.lengths[k] # hist.lengths[1])
       => /\ call = Idle("ValueError")
          /\ bus.caller = "none"
          /\ gripCmd = [l \in LEGS_IDS |-> "none"]

\* C18: the step that ends moveLegAsync's read ends the call; when the
\* trajectory was invalid the call returns False, the caller holds no lock, no
\* new bus transaction is begun (no retry), and the reference buffer and the
\* recorded requests are what they were; no step of a moveLegAsync call
\* changes the reference buffer.
C18_InvalidTrajectoryReturnsFalse ==
    [][/\ (call.pc = "asyncRead" /\ call' # call)
          => /\ call' \in {Idle("None"), Idle("False")}
             /\ call'.ret = "False"
                   => /\ locker' # "caller"
                      /\ bus'.caller = "none"
                      /\ qDqDdBuffer' = qDqDdBuffer
                      /\ hist' = hist
       /\ call.op = "moveLegAsync" => qDqDdBuffer' = qDqDdBuffer]_vars

\* C18, the case: a moveLegAsync request has returned False and the caller
\* holds no lock.
C18_AsyncReturnedFalse ==
    /\ hist.op = "moveLegAsync"
    /\ call = Idle("False")
    /\ locker # "caller"

\* C19: once the microcontroller has answered an "init" with the init
\* response, handshake eventually returns, whatever status lines the reader
\* receives in between.
C19_AnsweredHandshakeReturns ==
    comm.answered ~> (comm.op # "handshake")

\* C20: a thread that reads or writes the serial port, or reads or writes the
\* received message, holds the gripper controller's lock.
C20_SerialAndMessageUnderLock ==
    /\ comm.reader \in {"readline", "store"} => comm.locker = "reader"
    /\ comm.main \in {"write", "poll", "waitRead"} => comm.locker = "main"

\* C21: a call of getIdsOfAttachedLegs made while the received message is a
\* 10-character status line returns, in ascending order, exactly the legs
\* whose gripper character and switch character are both "0".
C21_AttachedLegsFromStatus ==
    (hist.op = "getIdsOfAttachedLegs" /\ Len(receivedMessage) = 10)
       => /\ call.ret = "ids"
          /\ call.legsIds = Ascending({i \in 0 .. 4 :
                               receivedMessage[i + 1] = "0" /\ receivedMessage[i + 6] = "0"})

\* C22: getSpiderPose averages one candidate for every combination of three
\* legs whose footholds are not on one line (in any direction) and none for a
\* combination whose footholds are on one line.
C22_CandidatesFromNonCollinear ==
    planner.pc = "returned"
       => planner.poses =
             {S \in Combinations3(planner.legsIds) :
                 \E a, b, c \in S :
                    LET p == planner.legsGlobalPositions
                    IN  (p[b][1] - p[a][1]) * (p[c][2] - p[a][2])
                           # (p[b][2] - p[a][2]) * (p[c][1] - p[a][1])}

\* C23: platformForwardKinematics given a number of leg ids, footholds or leg
\* poses other than three returns the failure sentinel and no pose; given
\* three of each it returns a pose of six elements.
C23_SentinelUnlessThreeLegs ==
    planner.pc = "returned"
       => IF planner.legsIds = 3 /\ planner.legsGlobalPositions = 3 /\ planner.legsLocalPoses = 3
          THEN ~planner.returned.sentinel /\ Len(planner.returned.xyzrpy) = 6
          ELSE planner.returned.sentinel /\ planner.returned.xyzrpy = <<>>

\* C23, the case: a call with three leg ids and four footholds has returned
\* the sentinel.
C23_ThreeIdsFourFootholds ==
    /\ planner.pc = "returned"
    /\ planner.legsIds = 3
    /\ planner.legsGlobalPositions = 4
    /\ planner.returned.sentinel

\* C24: legInverseKinematics raises no math-domain error: the argument of the
\* inverse cosine is within [-1, 1] when it is taken, and joint angles are
\* returned.
C24_CosineBroughtIntoDomain ==
    planner.pc = "returned"
       => /\ planner.returned.raised = "none"
          /\ -10000 <= planner.returned.cosine
          /\ planner.returned.cosine <= 10000
          /\ Len(planner.returned.q) = 3

\* C25: legInverseKinematics of the tip position of legForwardKinematics(q)
\* returns joints with q3 <= 0; for q with q3 <= 0 it returns q, and for q
\* with q3 > 0 (elbow up) it returns the same q1 with the elbow down.
C25_InverseOfForward ==
    (planner.pc = "returned" /\ planner.jointsValues # <<>>)
       => /\ planner.returned.raised = "none"
          /\ planner.returned.q[3] <= 0
          /\ planner.returned.q[1] = planner.jointsValues[1]
          /\ planner.jointsValues[3] <= 0 => planner.returned.q = planner.jointsValues
          /\ planner.jointsValues[3] > 0 => planner.returned.q[3] = 0 - planner.jointsValues[3]

\* C25, the case: the joints of a bent leg turned to the side were recovered.
C25_BentLegRecovered ==
    /\ planner.pc = "returned"
    /\ planner.jointsValues = <<1, 1, -3>>
    /\ planner.returned.q = <<1, 1, -3>>

\* C26: moveLegs called with an open command for every given leg sends an open
\* command to each of those legs, and it starts no transaction on the bus
\* (neither the first batch read nor a velocity write) until every one of
\* those legs has been seen open in a received message of 10 characters; a
\* poll of a message of another length confirms no leg.
C26_OpenConfirmedBeforeVelocity ==
    [][/\ call.pc \in {"open", "wait"} => bus.caller = "none"
       /\ (call.pc = "open" /\ call' # call)
             => /\ gripCmd'[call.legsIds[call.sent + 1]] = OPEN_COMMAND
                /\ call'.pc = "open" => call'.sent = call.sent + 1
                /\ call'.pc # "open"
                      => /\ call'.pc = "wait"
                         /\ call'.checkArray = {}
                         /\ \A l \in Range(call.legsIds) : gripCmd'[l] = OPEN_COMMAND
       /\ (call.pc = "wait" /\ call' # call)
             => /\ Len(receivedMessage) = RECEIVED_MESSAGE_LENGTH
                /\ \A k \in call'.checkArray \ call.checkArray :
                      receivedMessage[call.legsIds[k] + 1] = GRIPPER_OPENED_RESPONSE
                /\ call'.pc # "wait" => call'.checkArray = DOMAIN call.legsIds
       /\ (call'.pc \in {"reading", "writing"} /\ call'.i = 0 /\ call.pc # "writing"
             /\ call.pc # "reading" /\ Len(call'.cmds) > 0
             /\ \A k \in DOMAIN call'.cmds : call'.cmds[k] = OPEN_COMMAND)
             => call.pc = "wait"]_vars

\* The first velocity command of a moveLegs that opened the grippers of two
\* legs is being written after both legs were confirmed open.
C26_BothLegsConfirmedOpen ==
    /\ call.pc = "writing"
    /\ call.i = 0
    /\ call.cmds = <<OPEN_COMMAND, OPEN_COMMAND>>
    /\ call.checkArray = {1, 2}

\* C27: moveLegsAndGrabPins goes through its phases in the order 1 (open the
\* grippers, detach), 2 (approach), 3 (lower, close): a phase starts only
\* when the moveLegs of the phase before has written its last tick, an open
\* command is sent only in phase 1, and a close command is sent to a leg only
\* in phase 3, on a tick on which no sample of the leg's trajectory is left to
\* track, the last command to that gripper having been the open command.
C27_PhasesInOrder ==
    [][/\ (call.phase > 0 /\ call'.phase # call.phase /\ call'.phase > 0)
             => /\ call'.phase = call.phase + 1
                /\ call.pc = "writing"
                /\ call.i + 1 >= Len(call.qDs[LongerIdx(call.qDs)])
       /\ (call.phase = 0 /\ call'.phase > 0) => call'.phase = 1
       /\ \A l \in LEGS_IDS :
             (call.phase > 0 /\ gripCmd'[l] # gripCmd[l])
                => \/ /\ gripCmd'[l] = OPEN_COMMAND
                      /\ call.phase = 1
                      /\ call.pc = "open"
                   \/ /\ gripCmd'[l] = CLOSE_COMMAND
                      /\ gripCmd[l] = OPEN_COMMAND
                      /\ call.phase = 3
                      /\ \E k \in DOMAIN call.legsIds :
                            call.legsIds[k] = l /\ call.i >= Len(call.qDs[k]) - 1]_vars

\* The last tick of phase 3 is being written with the grippers of both legs
\* told to close.
C27_ClosedAfterLowering ==
    /\ call.phase = 3
    /\ call.pc = "writing"
    /\ call.legsIds = <<1, 3>>
    /\ call.i = Len(call.qDs[1]) - 1
    /\ gripCmd[1] = CLOSE_COMMAND
    /\ gripCmd[3] = CLOSE_COMMAND

\* C28: a walk over a plan of two or more poses that ends without a failed
\* sub-movement has completed the platform move of every pose k >= 1 (all
\* five legs were driven along a platform trajectory) before it moved the
\* legs whose foothold changes.
C28_PlatformMovedAtEveryPose ==
    (hist.op = "walk" /\ call.pc = "idle" /\ call.ret # "False" /\ Len(hist.walk) >= 2)
       => /\ call.ret = "True"
          /\ \A l \in LEGS_IDS : hist.target[l] # <<>>

\* C29: the batch write after which moveLegs or movePlatform returns True
\* wrote zero velocity to every leg of the call, and on every tick of moveLegs
\* a leg whose trajectory has no sample left to track (tick i >= len - 1) is
\* written zero velocity.
C29_StopsBeforeReturningTrue ==
    [][/\ (call.pc = "writing" /\ call' # call /\ call'.wrote = "ok"
             /\ ~(call'.pc = "reading" /\ call'.i = call.i + 1))
             => \A k \in DOMAIN call.legsIds : call.qCds[k] = Zero3
       /\ (call.pc = "platformWriting" /\ call' # call /\ call'.wrote = "ok"
             /\ ~(call'.pc = "platformReading" /\ call'.i = call.i + 1))
             => \A k \in DOMAIN call.legsIds : call.qCds[k] = Zero3
       /\ call.pc = "writing"
             => \A k \in DOMAIN call.legsIds :
                   call.i >= Len(call.qDs[k]) - 1 => call.qCds[k] = Zero3]_vars

\* moveLegs has returned True after a movement of two legs whose shorter
\* trajectory ended one tick before the longer one.
C29_ReturnedTrueAfterUnequalLegs ==
    /\ call.pc = "idle"
    /\ call.ret = "True"
    /\ call.wrote = "ok"
    /\ hist.op = "moveLegs"
    /\ hist.target[1] # <<>>
    /\ hist.target[3] # <<>>
    /\ hist.target[1] # hist.target[3]

\* C30: the holder of the joint-control lock is inside a bus transaction and
\* the holder of the gripper lock is inside a serial read, a serial write or
\* one look at the received message; no thread holds both locks, a thread
\* that waits for a gripper status (openGrippersAndWait) holds
\* neither between two looks, and whoever holds a lock can take the step that
\* releases it, so the threads never deadlock on the two locks.
C30_LocksNeverNested ==
    /\ locker = "ctrl" => ctl.pc \in {"read", "write"}
    /\ locker = "caller" => call.pc = "asyncRead" /\ comm.main = "idle"
    /\ comm.locker = "reader" => comm.reader = "readline"
    /\ comm.locker = "main" => comm.main \in {"write", "waitRead"} /\ call.pc = "idle"
    /\ ~(locker = "caller" /\ comm.locker = "main")
    /\ comm.main \in {"send", "waitLock"} => comm.locker # "main" /\ locker # "caller"
    /\ locker # "free" => ENABLED (ControllerRead \/ ControllerWrite \/ MoveLegAsyncRead)
    /\ comm.locker # "free" => ENABLED (ReadDataReadline \/ SendDataWrite \/ WaitGrippersRead)

\* The control loop is inside a bus transaction under the joint-control lock
\* while the caller looks at the received message under the gripper lock,
\* waiting for a gripper to open.
C30_BothLocksHeldByTwoThreads ==
    /\ locker = "ctrl"
    /\ comm.locker = "main"
    /\ comm.main = "waitRead"

====
